---- MODULE Spec2Model ----
(***************************************************************************)
(* music-api: the bearer-token gate (validateToken), the track and         *)
(* playlist handlers with their ownership check, and the user handlers     *)
(* (register, login, /users/me), over a document store.                    *)
(*                                                                         *)
(* A request occupies a slot of `req`.  Express runs the gate and the      *)
(* handler up to its first `await` in one go (Receive); after that every   *)
(* step of a handler is one store operation together with the local code   *)
(* that follows it up to the next `await` or the response.  Store          *)
(* operations of different requests interleave freely.                     *)
(*                                                                         *)
(* Values that come from JSON are tagged records: [t |-> "undefined"],     *)
(* [t |-> "string", v |-> <<chars>>], [t |-> "number", v |-> n] and        *)
(* [t |-> "oid", v |-> n], the last being a string of 24 hex digits that   *)
(* denotes ObjectId n.                                                     *)
(***************************************************************************)
EXTENDS Integers, Sequences, FiniteSets, TLC

VARIABLES
    db,      \* the collections: db.User, db.Track, db.Playlist (sets of documents)
    oidSeq,  \* per collection, how many ObjectIds were generated so far
    now,     \* the clock, in minutes
    req      \* the request slots

vars == <<db, oidSeq, now, req>>

----------------------------------------------------------------------------
(* Bounds *)

MaxReqs == 2        \* requests in flight at once
NumUsers == 2       \* user identities
MaxTracks == 1      \* tracks ever created
MaxPlaylists == 1   \* playlists ever created
MaxTime == 15       \* the clock stops here
TickMinutes == 5    \* the clock advances in steps of this many minutes

Reqs == 1..MaxReqs
UserIds == 1..NumUsers

----------------------------------------------------------------------------
(* JSON values *)

Undefined == [t |-> "undefined"]
Str(s) == [t |-> "string", v |-> s]
Num(n) == [t |-> "number", v |-> n]
Oid(n) == [t |-> "oid", v |-> n]

\* JavaScript truthiness of a JSON value: !x is true for undefined, "" and 0
Truthy(x) ==
    CASE x.t = "undefined" -> FALSE
      [] x.t = "string" -> x.v # <<>>
      [] x.t = "number" -> x.v # 0
      [] OTHER -> TRUE

RECURSIVE TrimStart(_)
TrimStart(s) == IF s # <<>> /\ Head(s) = " " THEN TrimStart(Tail(s)) ELSE s

RECURSIVE TrimEnd(_)
TrimEnd(s) ==
    IF s # <<>> /\ s[Len(s)] = " " THEN TrimEnd(SubSeq(s, 1, Len(s) - 1)) ELSE s

\* String.prototype.trim, the `trim: true` setter of the schemas
Trim(s) == TrimEnd(TrimStart(s))

Lower(c) == CASE c = "A" -> "a" [] c = "B" -> "b" [] OTHER -> c
\* String.prototype.toLowerCase, the `lowercase: true` setter
ToLowerCase(s) == [i \in 1..Len(s) |-> Lower(s[i])]

----------------------------------------------------------------------------
(* Bearer tokens and the Authorization header *)

ACCESS_TOKEN_SECRET == "secret"   \* process.env.ACCESS_TOKEN_SECRET
OtherSecret == "other"            \* any secret that is not the configured one
ExpiresIn == 10                   \* expiresIn: "10m"

\* jwt.sign(payload, secret, {expiresIn}): exp is Undefined when no expiry is asked for
JwtSign(payload, secret, exp) == [payload |-> payload, exp |-> exp, sig |-> secret]

\* A header is Undefined or Str(<<chunk, ...>>); a chunk is a word, one space
\* character, or a token as the client got it from jwt.sign.
Lit(w) == [k |-> "lit", w |-> w]
Sp == [k |-> "sp"]
Tok(j) == [k |-> "tok", jwt |-> j]

\* (mutant) the scheme compared without regard to case
StartsWithBearerAnyCase(h) ==
    Len(h) >= 2 /\ h[1] \in {Lit("Bearer"), Lit("bearer")} /\ h[2] = Sp

\* authHeader.startsWith("Bearer ")
StartsWithBearer(h) == Len(h) >= 2 /\ h[1] = Lit("Bearer") /\ h[2] = Sp

RECURSIVE SplitSp(_)
\* String.prototype.split(" "): the pieces between the space characters
SplitSp(h) ==
    IF \E i \in 1..Len(h) : h[i] = Sp
    THEN LET i == CHOOSE j \in 1..Len(h) : h[j] = Sp /\ \A m \in 1..(j - 1) : h[m] # Sp
         IN  <<SubSeq(h, 1, i - 1)>> \o SplitSp(SubSeq(h, i + 1, Len(h)))
    ELSE <<h>>

\* (mutant) verification that ignores the expiry
JwtVerifyIgnoreExpiration(token, secret, t) ==
    IF token = <<>> THEN [err |-> "jwt must be provided"]
    ELSE IF Len(token) # 1 \/ token[1].k # "tok" THEN [err |-> "jwt malformed"]
    ELSE LET j == token[1].jwt IN
         IF j.sig # secret THEN [err |-> "invalid signature"]
         ELSE [err |-> "", decoded |-> j.payload]

\* jwt.verify(token, secret, callback) at time t: err, or the decoded payload
JwtVerify(token, secret, t) ==
    IF token = <<>> THEN [err |-> "jwt must be provided"]
    ELSE IF Len(token) # 1 \/ token[1].k # "tok" THEN [err |-> "jwt malformed"]
    ELSE LET j == token[1].jwt IN
         IF j.sig # secret THEN [err |-> "invalid signature"]
         ELSE IF j.exp.t = "number" /\ t >= j.exp.v THEN [err |-> "jwt expired"]
         ELSE [err |-> "", decoded |-> j.payload]

NotAuthorizedOrMissing(authHeader) ==
    ~Truthy(authHeader) \/ ~StartsWithBearer(authHeader.v)

\* (mutant) a gate that sends 401 on a verification error and goes on all the same
validateTokenFallsThrough(authHeader, t) ==
    IF NotAuthorizedOrMissing(authHeader)
    THEN [next |-> FALSE, status |-> 401,
          json |-> [message |-> "User is not authorized or token is missing"]]
    ELSE LET token == SplitSp(authHeader.v)[2]
             v == JwtVerify(token, ACCESS_TOKEN_SECRET, t)
         IN  IF v.err # "" /\ (Len(token) # 1 \/ token[1].k # "tok")
             THEN [next |-> FALSE, status |-> 401,
                   json |-> [message |-> "User is not authorized"]]
             ELSE [next |-> TRUE, user |-> token[1].jwt.payload.user]

\* (mutant) a gate that also looks the user up and refuses the token of a user who
\* is no longer stored
validateTokenOfStoredUser(authHeader, t) ==
    IF NotAuthorizedOrMissing(authHeader)
    THEN [next |-> FALSE, status |-> 401,
          json |-> [message |-> "User is not authorized or token is missing"]]
    ELSE LET token == SplitSp(authHeader.v)[2]
             v == JwtVerify(token, ACCESS_TOKEN_SECRET, t)
         IN  IF v.err # "" \/ \A u \in db.User : v.decoded.user.id # [t |-> "oid", v |-> u._id]
             THEN [next |-> FALSE, status |-> 401,
                   json |-> [message |-> "User is not authorized"]]
             ELSE [next |-> TRUE, user |-> v.decoded.user]

\* validateToken(req, res, next) at time t: the response it sends, or next() with req.user
validateToken(authHeader, t) ==
    IF NotAuthorizedOrMissing(authHeader)
    THEN [next |-> FALSE, status |-> 401,
          json |-> [message |-> "User is not authorized or token is missing"]]
    ELSE LET token == SplitSp(authHeader.v)[2]
             v == JwtVerify(token, ACCESS_TOKEN_SECRET, t)
         IN  IF v.err # ""
             THEN [next |-> FALSE, status |-> 401,
                   json |-> [message |-> "User is not authorized"]]
             ELSE [next |-> TRUE, user |-> v.decoded.user]

----------------------------------------------------------------------------
(* Schemas of Track and Playlist (mongoose, strict) *)

TitleMaxLength == 100
DescriptionMaxLength == 300
GenreMaxLength == 50

\* the schema paths a request body can set, per collection
SchemaPaths(coll) ==
    IF coll = "Track" THEN {"userId", "title", "description", "genre"}
    ELSE {"userId", "title", "description", "trackIds"}

StringPaths(coll) == SchemaPaths(coll) \cap {"title", "description", "genre"}

MaxLength(path) ==
    CASE path = "title" -> TitleMaxLength
      [] path = "description" -> DescriptionMaxLength
      [] OTHER -> GenreMaxLength

\* (mutant) the schema without `trim: true`
CastStringUntrimmed(x) == x

\* the value mongoose stores for a String path: the `trim: true` setter applied
CastString(x) == IF x.t = "string" THEN Str(Trim(x.v)) ELSE x

\* the value mongoose stores for `trackIds`: an array of ObjectIds, [] by default
CastTrackIds(x) == IF x.t = "array" THEN [i \in 1..Len(x.v) |-> x.v[i].v] ELSE <<>>

\* casting to ObjectId fails for anything but a string of 24 hex digits
OidCastFails(x) == x.t # "undefined" /\ x.t # "oid"
TrackIdsCastFails(x) == x.t = "array" /\ \E i \in 1..Len(x.v) : OidCastFails(x.v[i])

\* the paths of `fields` whose cast to the schema type fails
CastErrors(coll, fields) ==
    {p \in SchemaPaths(coll) :
        \/ p = "userId" /\ OidCastFails(fields[p])
        \/ p = "trackIds" /\ TrackIdsCastFails(fields[p])}

\* maxlength and the custom validator of a String path, on the value after its setter
StringRuleBroken(path, x) ==
    IF x.t # "string" THEN "none"
    ELSE IF Len(x.v) > MaxLength(path) THEN "maxlength"
    ELSE IF Len(Trim(x.v)) = 0 THEN "empty"
    ELSE "none"

\* the paths of `fields` that break a schema rule (undefined is never validated)
ValidationErrors(coll, fields) ==
    {p \in StringPaths(coll) : StringRuleBroken(p, CastString(fields[p])) # "none"}

\* the document mongoose builds from `fields` for collection `coll`, with the
\* timestamps of `timestamps: true`
NewDoc(coll, id, fields) ==
    IF coll = "Track"
    THEN [_id |-> id, userId |-> fields.userId.v,
          title |-> CastString(fields.title),
          description |-> CastString(fields.description),
          genre |-> CastString(fields.genre),
          createdAt |-> now, updatedAt |-> now]
    ELSE [_id |-> id, userId |-> fields.userId.v,
          title |-> CastString(fields.title),
          description |-> CastString(fields.description),
          trackIds |-> CastTrackIds(fields.trackIds),
          createdAt |-> now, updatedAt |-> now]

\* the value a path of the stored document takes under {$set: body}
SetPath(coll, doc, body, p) ==
    IF p \notin SchemaPaths(coll) \/ body[p].t = "undefined" THEN doc[p]
    ELSE CASE p = "userId" -> body[p].v
           [] p = "trackIds" -> CastTrackIds(body[p])
           [] OTHER -> CastString(body[p])

\* the document after findByIdAndUpdate(id, {$set: body}): every schema path the
\* body names is replaced, `_id` and createdAt are kept, updatedAt is set
ApplySet(coll, doc, body) ==
    IF coll = "Track"
    THEN [_id |-> doc._id, userId |-> SetPath(coll, doc, body, "userId"),
          title |-> SetPath(coll, doc, body, "title"),
          description |-> SetPath(coll, doc, body, "description"),
          genre |-> SetPath(coll, doc, body, "genre"),
          createdAt |-> doc.createdAt, updatedAt |-> now]
    ELSE [_id |-> doc._id, userId |-> SetPath(coll, doc, body, "userId"),
          title |-> SetPath(coll, doc, body, "title"),
          description |-> SetPath(coll, doc, body, "description"),
          trackIds |-> SetPath(coll, doc, body, "trackIds"),
          createdAt |-> doc.createdAt, updatedAt |-> now]

\* Model.findById(id) as the set of matching documents (empty or a singleton)
FindById(coll, id) == {d \in db[coll] : d._id = id}

----------------------------------------------------------------------------
(* Requests and responses *)

NoRequest == [op |-> "none"]

\* req.query of GET /tracks
NoQuery == [title |-> Undefined, description |-> Undefined, genre |-> Undefined,
            tags |-> Undefined, createdAt |-> Undefined, updatedAt |-> Undefined]
\* pc: where the request is; rq: the request; nexts: how often the gate called
\* next(); user: req.user; loc: the handler's local variable; res: responses sent
IdleSlot == [pc |-> "idle", rq |-> NoRequest, nexts |-> 0, user |-> Undefined,
             loc |-> Undefined, res |-> <<>>]

\* the routes behind router.use(validateToken) or with validateToken in their chain
ProtectedOps ==
    {"fetchExistingTracks", "createNewTrack", "updateExistingTrack", "deleteExistingTrack",
     "fetchExistingPlaylists", "createNewPlaylist", "updateExistingPlaylist",
     "deleteExistingPlaylist", "fetchCurrentUser", "updateCurrentUser",
     "deleteCurrentUser", "exports"}

CreateOps == {"createNewTrack", "createNewPlaylist", "registerUser"}

MeOps == {"fetchCurrentUser", "updateCurrentUser", "deleteCurrentUser"}

CollectionOf(op) ==
    CASE op \in {"fetchExistingTracks", "createNewTrack", "updateExistingTrack",
                 "deleteExistingTrack"} -> "Track"
      [] op \in {"fetchExistingPlaylists", "createNewPlaylist", "updateExistingPlaylist",
                 "deleteExistingPlaylist", "exports"} -> "Playlist"
      [] OTHER -> "User"

MaxDocs(coll) ==
    CASE coll = "Track" -> MaxTracks
      [] coll = "Playlist" -> MaxPlaylists
      [] OTHER -> NumUsers

\* res.status(status).json(json) by the request in slot r: the request is over
Respond(r, status, json) ==
    req' = [req EXCEPT ![r].pc = "done",
                       ![r].res = Append(@, [status |-> status, json |-> json])]

Message(m) == [message |-> m]

\* the handler goes on to its next store operation
Goto(r, pc) == req' = [req EXCEPT ![r].pc = pc]

InFlight(r) == req[r].pc \notin {"idle", "done"}

\* creates accepted so far for `coll` that have not reached the store yet
PendingCreates(coll) ==
    Cardinality({r \in Reqs : /\ InFlight(r)
                              /\ req[r].rq.op \in CreateOps
                              /\ CollectionOf(req[r].rq.op) = coll})

\* Express takes request rq into the free slot r: the gate on the protected routes,
\* then the handler up to its first store operation.
Receive(r, rq) ==
    /\ req[r].pc = "idle"
    /\ rq.op \in CreateOps =>
           oidSeq[CollectionOf(rq.op)] + PendingCreates(CollectionOf(rq.op))
               < MaxDocs(CollectionOf(rq.op))
    /\ IF rq.op \in ProtectedOps
       THEN LET g == validateToken(rq.authorization, now) IN
            IF g.next
            THEN req' = [req EXCEPT ![r] = [IdleSlot EXCEPT !.pc = "start", !.rq = rq,
                                               !.nexts = 1, !.user = g.user]]
            ELSE req' = [req EXCEPT ![r] = [IdleSlot EXCEPT !.pc = "done", !.rq = rq,
                             !.res = <<[status |-> g.status, json |-> g.json]>>]]
       ELSE req' = [req EXCEPT ![r] = [IdleSlot EXCEPT !.pc = "start", !.rq = rq]]
    /\ UNCHANGED <<db, oidSeq, now>>

\* the client has its response; the slot is free again
Release(r) ==
    /\ req[r].pc = "done"
    /\ req' = [req EXCEPT ![r] = IdleSlot]
    /\ UNCHANGED <<db, oidSeq, now>>

----------------------------------------------------------------------------
(* Track and playlist handlers *)

InternalServerError == Message("Internal server error")

At(r, op, pc) == req[r].rq.op = op /\ req[r].pc = pc

\* a store operation rejects (connection lost, server error): every handler's
\* catch block answers 500
storeError(r) ==
    /\ InFlight(r)
    /\ req[r].rq.op # "exports"
    /\ Respond(r, 500, InternalServerError)
    /\ UNCHANGED <<db, oidSeq, now>>

\* req.user.id as the handlers read it (reading it throws when req.user is undefined)
CallerId(r) == IF req[r].user.t = "undefined" THEN Undefined ELSE req[r].user.id
NoCaller(r) == req[r].user.t = "undefined"

\* the message of the schema rule that path p of `fields` breaks
RuleMessage(p, fields) ==
    LET rule == StringRuleBroken(p, CastString(fields[p])) IN
    CASE p = "title" /\ rule = "maxlength" -> "Title must be at most 100 characters long"
      [] p = "title" /\ rule = "empty" -> "Title cannot be an empty string"
      [] p = "description" /\ rule = "maxlength" ->
             "Description must be at most 300 characters long"
      [] p = "description" /\ rule = "empty" -> "Description cannot be an empty string"
      [] p = "genre" /\ rule = "maxlength" -> "Genre must be at most 50 characters long"
      [] p = "genre" /\ rule = "empty" -> "Genre cannot be an empty string"
      [] OTHER -> "Cast to ObjectId failed"

\* what Object.values(error.errors)[0].message can be for the paths in error
ValidationMessages(coll, fields) ==
    {Message(RuleMessage(p, fields)) :
        p \in ValidationErrors(coll, fields) \cup CastErrors(coll, fields)}

\* (mutant) Model.create({...req.body}) with the caller as the default owner
CreateFieldsSpread(r) ==
    IF req[r].rq.body.userId.t = "undefined"
    THEN [req[r].rq.body EXCEPT !.userId = CallerId(r)]
    ELSE req[r].rq.body

\* the fields the create handlers hand to Model.create: the body's own userId is
\* not among them
CreateFields(r) == [req[r].rq.body EXCEPT !.userId = CallerId(r)]

\* createNewTrack / createNewPlaylist: Model.create({..., userId: req.user.id})
createNew(r, op, coll) ==
    /\ At(r, op, "start")
    /\ IF NoCaller(r)
       THEN Respond(r, 500, InternalServerError) /\ UNCHANGED <<db, oidSeq>>
       ELSE IF ValidationMessages(coll, CreateFields(r)) # {}
       THEN /\ \E m \in ValidationMessages(coll, CreateFields(r)) : Respond(r, 400, m)
            /\ UNCHANGED <<db, oidSeq>>
       ELSE LET doc == NewDoc(coll, oidSeq[coll] + 1, CreateFields(r)) IN
            /\ db' = [db EXCEPT ![coll] = @ \cup {doc}]
            /\ oidSeq' = [oidSeq EXCEPT ![coll] = @ + 1]
            /\ Respond(r, 201, [doc |-> doc])
    /\ UNCHANGED now

\* (mutant) the handlers without the comparison of the owner with the caller
checkExists(r, op, notFound, forbidden, nextPc) ==
    /\ At(r, op, "start")
    /\ IF OidCastFails(req[r].rq.id)
       THEN Respond(r, 500, InternalServerError)
       ELSE IF FindById(CollectionOf(op), req[r].rq.id.v) = {}
       THEN Respond(r, 404, Message(notFound))
       ELSE Goto(r, nextPc)
    /\ UNCHANGED <<db, oidSeq, now>>

\* (mutant) the lookup by id and owner at once, findOne({_id, userId}): a resource
\* that is not stored is refused like one that is another user's
checkOwnerBeforeExistence(r, op, notFound, forbidden, nextPc) ==
    /\ At(r, op, "start")
    /\ IF OidCastFails(req[r].rq.id) \/ NoCaller(r)
       THEN Respond(r, 500, InternalServerError)
       ELSE IF \E d \in FindById(CollectionOf(op), req[r].rq.id.v) : Oid(d.userId) = CallerId(r)
       THEN Goto(r, nextPc)
       ELSE Respond(r, 403, Message(forbidden))
    /\ UNCHANGED <<db, oidSeq, now>>

\* the ownership check of the update and delete handlers: findById, then 404,
\* then 403, then on to the mutation
checkOwner(r, op, notFound, forbidden, nextPc) ==
    /\ At(r, op, "start")
    /\ IF OidCastFails(req[r].rq.id)
       THEN Respond(r, 500, InternalServerError)
       ELSE LET found == FindById(CollectionOf(op), req[r].rq.id.v) IN
            IF found = {} THEN Respond(r, 404, Message(notFound))
            ELSE IF NoCaller(r) THEN Respond(r, 500, InternalServerError)
            ELSE IF \E d \in found : Oid(d.userId) # CallerId(r)
            THEN Respond(r, 403, Message(forbidden))
            ELSE Goto(r, nextPc)
    /\ UNCHANGED <<db, oidSeq, now>>

\* (mutant) an update that answers 200 and then goes on to the statement after it,
\* where it answers again
findByIdAndUpdateNoReturn(r, op, coll) ==
    \/ /\ At(r, op, "findByIdAndUpdate")
       /\ req' = [req EXCEPT ![r].pc = "fallsThrough",
                             ![r].res = Append(@, [status |-> 200,
                                                   json |-> [doc |-> Undefined]])]
       /\ UNCHANGED <<db, oidSeq, now>>
    \/ /\ At(r, op, "fallsThrough")
       /\ Respond(r, 500, InternalServerError)
       /\ UNCHANGED <<db, oidSeq, now>>

\* (mutant) the update with upsert: true: a document that is not stored is inserted
findByIdAndUpdateUpsert(r, op, coll) ==
    /\ At(r, op, "findByIdAndUpdate")
    /\ LET body == req[r].rq.body
           found == FindById(coll, req[r].rq.id.v)
           fresh == NewDoc(coll, req[r].rq.id.v, [body EXCEPT !.userId = CallerId(r)])
       IN  IF CastErrors(coll, body) # {}
           THEN Respond(r, 500, InternalServerError) /\ UNCHANGED db
           ELSE IF ValidationErrors(coll, body) # {}
           THEN /\ \E m \in ValidationMessages(coll, body) : Respond(r, 400, m)
                /\ UNCHANGED db
           ELSE IF found = {}
           THEN /\ db' = [db EXCEPT ![coll] = @ \cup {fresh}]
                /\ Respond(r, 200, [doc |-> fresh])
           ELSE \E d \in found :
                    /\ db' = [db EXCEPT ![coll] = (@ \ {d}) \cup {ApplySet(coll, d, body)}]
                    /\ Respond(r, 200, [doc |-> ApplySet(coll, d, body)])
    /\ UNCHANGED <<oidSeq, now>>

\* (mutant) an update that answers 404 when findByIdAndUpdate gives null
findByIdAndUpdateOrNotFound(r, op, coll) ==
    /\ At(r, op, "findByIdAndUpdate")
    /\ LET body == req[r].rq.body
           found == FindById(coll, req[r].rq.id.v)
       IN  IF CastErrors(coll, body) # {}
           THEN Respond(r, 500, InternalServerError) /\ UNCHANGED db
           ELSE IF ValidationErrors(coll, body) # {}
           THEN /\ \E m \in ValidationMessages(coll, body) : Respond(r, 400, m)
                /\ UNCHANGED db
           ELSE IF found = {}
           THEN Respond(r, 404, Message("Not found")) /\ UNCHANGED db
           ELSE \E d \in found :
                    /\ db' = [db EXCEPT ![coll] = (@ \ {d}) \cup {ApplySet(coll, d, body)}]
                    /\ Respond(r, 200, [doc |-> ApplySet(coll, d, body)])
    /\ UNCHANGED <<oidSeq, now>>

\* findByIdAndUpdate(id, {$set: req.body}, {new: true, runValidators: true})
findByIdAndUpdate(r, op, coll) ==
    /\ At(r, op, "findByIdAndUpdate")
    /\ LET body == req[r].rq.body
           found == FindById(coll, req[r].rq.id.v)
       IN  IF CastErrors(coll, body) # {}
           THEN Respond(r, 500, InternalServerError) /\ UNCHANGED db
           ELSE IF ValidationErrors(coll, body) # {}
           THEN /\ \E m \in ValidationMessages(coll, body) : Respond(r, 400, m)
                /\ UNCHANGED db
           ELSE IF found = {}
           THEN Respond(r, 200, [doc |-> Undefined]) /\ UNCHANGED db
           ELSE \E d \in found :
                    /\ db' = [db EXCEPT ![coll] = (@ \ {d}) \cup {ApplySet(coll, d, body)}]
                    /\ Respond(r, 200, [doc |-> ApplySet(coll, d, body)])
    /\ UNCHANGED <<oidSeq, now>>

\* (mutant) a delete that removes the document and then throws
findByIdAndDeleteThenThrows(r, op, coll, deleted) ==
    /\ At(r, op, "findByIdAndDelete")
    /\ db' = [db EXCEPT ![coll] = @ \ FindById(coll, req[r].rq.id.v)]
    /\ Respond(r, 500, InternalServerError)
    /\ UNCHANGED <<oidSeq, now>>

\* (mutant) a delete that answers 404 when findByIdAndDelete gives null
findByIdAndDeleteOrNotFound(r, op, coll, deleted) ==
    /\ At(r, op, "findByIdAndDelete")
    /\ db' = [db EXCEPT ![coll] = @ \ FindById(coll, req[r].rq.id.v)]
    /\ IF FindById(coll, req[r].rq.id.v) = {}
       THEN Respond(r, 404, Message("Not found"))
       ELSE Respond(r, 200, Message(deleted))
    /\ UNCHANGED <<oidSeq, now>>

\* findByIdAndDelete(id), then 200 whatever it returned
findByIdAndDelete(r, op, coll, deleted) ==
    /\ At(r, op, "findByIdAndDelete")
    /\ db' = [db EXCEPT ![coll] = @ \ FindById(coll, req[r].rq.id.v)]
    /\ Respond(r, 200, Message(deleted))
    /\ UNCHANGED <<oidSeq, now>>

createNewTrack(r) == createNew(r, "createNewTrack", "Track")

updateExistingTrack(r) ==
    \/ checkOwner(r, "updateExistingTrack", "Track not found",
                  "User does not have permission to update another user's track",
                  "findByIdAndUpdate")
    \/ findByIdAndUpdate(r, "updateExistingTrack", "Track")

deleteExistingTrack(r) ==
    \/ checkOwner(r, "deleteExistingTrack", "Track not found",
                  "User does not have permission to delete another user's track",
                  "findByIdAndDelete")
    \/ findByIdAndDelete(r, "deleteExistingTrack", "Track", "Track deleted successfully")

createNewPlaylist(r) == createNew(r, "createNewPlaylist", "Playlist")

updateExistingPlaylist(r) ==
    \/ checkOwner(r, "updateExistingPlaylist", "Playlist not found",
                  "User does not have permission to update another user's playlist",
                  "findByIdAndUpdate")
    \/ findByIdAndUpdate(r, "updateExistingPlaylist", "Playlist")

deleteExistingPlaylist(r) ==
    \/ checkOwner(r, "deleteExistingPlaylist", "Playlist not found",
                  "User does not have permission to delete another user's playlist",
                  "findByIdAndDelete")
    \/ findByIdAndDelete(r, "deleteExistingPlaylist", "Playlist",
                         "Playlist deleted successfully")

----------------------------------------------------------------------------
(* Reading handlers of tracks, playlists and exports *)

\* (mutant) a find that forgets the owner
FindAll(coll, id) == db[coll]

\* (mutant) a find that compares the stored ObjectId with the caller's string as
\* they are, without the cast: nothing matches
FindByOwnerUncast(coll, id) == {d \in db[coll] : Oid(d.userId) = id /\ id.t = "objectid"}

\* Model.find({userId: req.user.id})
FindByOwner(coll, id) == {d \in db[coll] : Oid(d.userId) = id}

\* a date string of a query that parses, as the time on the clock it denotes
Instant(t) == [t |-> "instant", v |-> t]

\* {$regex: pattern, $options: "i"} on string s, for patterns of letters and "."
RegexTest(pattern, s) ==
    \E i \in 0..(Len(s) - Len(pattern)) :
        \A j \in 1..Len(pattern) :
            pattern[j] = "." \/ Lower(pattern[j]) = Lower(s[i + j])

\* tags.split(",").map(tag => tag.trim()).filter(Boolean) is not empty
HasTags(tags) ==
    /\ Truthy(tags)
    /\ tags.t = "string" => \E i \in 1..Len(tags.v) : tags.v[i] \notin {",", " "}

\* new Date(x) is an Invalid Date, which the query cannot cast
QueryCastFails(query) ==
    \E p \in {"createdAt", "updatedAt"} : Truthy(query[p]) /\ query[p].t # "instant"

\* document d passes the filter that fetchExistingTracks builds from req.query;
\* no stored track has tags, the schema has no such path
MatchesFilter(d, query) ==
    /\ \A p \in {"title", "description", "genre"} :
           Truthy(query[p]) => d[p].t = "string" /\ RegexTest(query[p].v, d[p].v)
    /\ ~HasTags(query.tags)
    /\ \A p \in {"createdAt", "updatedAt"} : Truthy(query[p]) => d[p] >= query[p].v

\* fetchExistingTracks / fetchExistingPlaylists: Model.find(filter), 404 when the
\* list is empty; the filter of playlists is the owner alone
fetchExisting(r, op, coll, notFound) ==
    LET query == IF coll = "Track" THEN req[r].rq.query ELSE NoQuery
        found == {d \in FindByOwner(coll, CallerId(r)) : MatchesFilter(d, query)}
    IN  /\ At(r, op, "start")
        /\ IF NoCaller(r) \/ OidCastFails(CallerId(r)) \/ QueryCastFails(query)
           THEN Respond(r, 500, InternalServerError)
           ELSE IF found = {}
           THEN Respond(r, 404, Message(notFound))
           ELSE Respond(r, 200, [docs |-> found])
        /\ UNCHANGED <<db, oidSeq, now>>

fetchExistingTracks(r) == fetchExisting(r, "fetchExistingTracks", "Track", "No tracks found")

fetchExistingPlaylists(r) ==
    fetchExisting(r, "fetchExistingPlaylists", "Playlist", "No playlists found")

\* populate("trackIds"): each id replaced by its track, ids without a track dropped
Populate(p) ==
    [p EXCEPT !.trackIds =
        LET RECURSIVE Tracks(_)
            Tracks(ids) ==
                IF ids = <<>> THEN <<>>
                ELSE (IF FindById("Track", Head(ids)) = {} THEN <<>>
                      ELSE <<CHOOSE t \in FindById("Track", Head(ids)) : TRUE>>)
                     \o Tracks(Tail(ids))
        IN  Tracks(p.trackIds)]

\* the names under which the models are registered, and the name that the ref of
\* trackIds asks for
ModelNames == {"User", "track", "Playlist"}
TrackIdsRef == "Track"

\* populate("trackIds") looks up the model its ref names; without it the query
\* rejects (MissingSchemaError) once a playlist names a track
PopulateRejects(playlists) ==
    TrackIdsRef \notin ModelNames /\ \E p \in playlists : p.trackIds # <<>>

\* GET /exports: res.send of the caller's playlists as a file, or of "Export failed"
\* with status 500 when the query rejects
exports(r) ==
    /\ At(r, "exports", "start")
    /\ \/ Respond(r, 500, [send |-> "Export failed"])
       \/ /\ ~NoCaller(r) /\ ~OidCastFails(CallerId(r))
          /\ ~PopulateRejects(FindByOwner("Playlist", CallerId(r)))
          /\ Respond(r, 200,
                 [send |-> {Populate(p) : p \in FindByOwner("Playlist", CallerId(r))}])
    /\ UNCHANGED <<db, oidSeq, now>>

----------------------------------------------------------------------------
(* Users: the schema, bcrypt, and the handlers *)

UsernameMinLength == 3
UsernameMaxLength == 20
PasswordMinLength == 8
PasswordMaxLength == 30
BcryptHashLength == 60    \* the length of the string bcrypt.hash returns
MaxAgeYears == 120        \* minDate.setFullYear(now.getFullYear() - 120)

\* a date string that parses, as the number of whole years it lies before the
\* current date (negative: in the future)
Date(y) == [t |-> "date", v |-> y]

\* casting to Date fails for a string that is no date
DateCastFails(x) == x.t = "string"

\* the validator of birthDate: not in the future, not before minDate
BirthDateBroken(x) == x.t = "date" /\ (x.v < 0 \/ x.v > MaxAgeYears)

\* (mutant) the password kept as it was sent
HashPlain(s) == Str(s)

\* bcrypt.hash(s, 12): a string that is not s and that only s matches
Hash(s) == [t |-> "bcrypt", of |-> s]

\* bcrypt.compare(data, hash): it rejects unless data is a string
BcryptCompare(data, hash) ==
    IF data.t # "string" THEN "throws"
    ELSE IF hash = Hash(data.v) THEN "match" ELSE "mismatch"

\* String(x) for the values the requests carry (the one number they carry is 12345678)
StringOf(x) == IF x.t = "string" THEN x.v ELSE <<"1", "2", "3", "4", "5", "6", "7", "8">>

\* the setters of the username and email paths, applied to documents and to queries
UsernameKey(x) == Str(Trim(StringOf(x)))
EmailKey(x) == Str(ToLowerCase(Trim(StringOf(x))))

\* validator.isEmail on the strings of the model: one "@" with text on both sides
IsEmail(s) ==
    /\ Cardinality({i \in 1..Len(s) : s[i] = "@"}) = 1
    /\ s # <<>> /\ s[1] # "@" /\ s[Len(s)] # "@"
    /\ \A i \in 1..Len(s) : s[i] # " "

\* /^[a-zA-Z0-9_]+$/ on the strings of the model
IsUsername(s) == s # <<>> /\ \A i \in 1..Len(s) : s[i] \notin {" ", "@"}

UsernameBroken(x) ==
    \/ Len(UsernameKey(x).v) \notin UsernameMinLength..UsernameMaxLength
    \/ ~IsUsername(UsernameKey(x).v)

EmailBroken(x) == ~IsEmail(EmailKey(x).v)

\* the rules Model.create checks before the pre-save hook hashes the password
UserValidationFails(body) ==
    \/ UsernameBroken(body.username)
    \/ EmailBroken(body.email)
    \/ Len(StringOf(body.password)) \notin PasswordMinLength..PasswordMaxLength
    \/ DateCastFails(body.birthDate) \/ BirthDateBroken(body.birthDate)

\* the unique indexes on username and email
DuplicateKey(users, username, email) ==
    \E u \in users : u.username = username \/ u.email = email

FindByEmail(email) == {u \in db.User : u.email = EmailKey(email)}
FindByUsername(username) == {u \in db.User : u.username = UsernameKey(username)}

Boolean(b) == [t |-> "boolean", v |-> b]

\* (mutant) the email collision reported before the username collision
ConflictMessageEmailFirst(existingUsername, existingEmail) ==
    IF existingEmail THEN "Email already in use"
    ELSE IF existingUsername THEN "Username already taken"
    ELSE ""

\* the 409 message of registerUser, "" when there is no collision
ConflictMessage(existingUsername, existingEmail) ==
    IF existingUsername THEN "Username already taken"
    ELSE IF existingEmail THEN "Email already in use"
    ELSE ""

registerUser(r) ==
    LET body == req[r].rq.body IN
    \/ /\ At(r, "registerUser", "start")
       /\ IF ~Truthy(body.username) \/ ~Truthy(body.email) \/ ~Truthy(body.password)
          THEN Respond(r, 400, Message("All fields are mandatory"))
          ELSE IF body.email.t # "string"
          THEN Respond(r, 500, InternalServerError)
          ELSE req' = [req EXCEPT ![r].pc = "findOneUsername",
                           ![r].loc = Boolean(FindByEmail(Str(ToLowerCase(body.email.v))) # {})]
       /\ UNCHANGED <<db, oidSeq, now>>
    \/ /\ At(r, "registerUser", "findOneUsername")
       /\ LET m == ConflictMessage(FindByUsername(body.username) # {}, req[r].loc.v) IN
          IF m # "" THEN Respond(r, 409, Message(m)) ELSE Goto(r, "create")
       /\ UNCHANGED <<db, oidSeq, now>>
    \/ /\ At(r, "registerUser", "create")
       /\ IF \/ UserValidationFails(body)
             \/ DuplicateKey(db.User, UsernameKey(body.username), EmailKey(body.email))
          THEN Respond(r, 500, InternalServerError) /\ UNCHANGED <<db, oidSeq>>
          ELSE LET user == [_id |-> oidSeq.User + 1,
                            username |-> UsernameKey(body.username),
                            email |-> EmailKey(body.email),
                            password |-> Hash(StringOf(body.password)),
                            birthDate |-> body.birthDate,
                            createdAt |-> now, updatedAt |-> now]
               IN  /\ db' = [db EXCEPT !.User = @ \cup {user}]
                   /\ oidSeq' = [oidSeq EXCEPT !.User = @ + 1]
                   /\ Respond(r, 201, [_id |-> Oid(user._id), email |-> user.email])
       /\ UNCHANGED now

loginUser(r) ==
    LET body == req[r].rq.body
        users == FindByEmail(body.email)
    IN  /\ At(r, "loginUser", "start")
        /\ IF ~Truthy(body.email) \/ ~Truthy(body.password)
           THEN Respond(r, 400, Message("All fields are mandatory"))
           ELSE IF users = {}
           THEN Respond(r, 401, Message("Invalid credentials"))
           ELSE \E user \in users :
                    LET c == BcryptCompare(body.password, user.password) IN
                    IF c = "throws" THEN Respond(r, 500, InternalServerError)
                    ELSE IF c = "match"
                    THEN Respond(r, 200,
                             [accessToken |->
                                 JwtSign([user |-> [t |-> "object", id |-> Oid(user._id),
                                                    username |-> user.username,
                                                    email |-> user.email]],
                                         ACCESS_TOKEN_SECRET, Num(now + ExpiresIn))])
                    ELSE Respond(r, 401, Message("Invalid credentials"))
        /\ UNCHANGED <<db, oidSeq, now>>

\* toJSON of a user: the password is deleted
UserJson(u) ==
    [_id |-> u._id, username |-> u.username, email |-> u.email, birthDate |-> u.birthDate,
     createdAt |-> u.createdAt, updatedAt |-> u.updatedAt]

fetchCurrentUser(r) ==
    /\ At(r, "fetchCurrentUser", "start")
    /\ IF NoCaller(r) \/ OidCastFails(CallerId(r))
       THEN Respond(r, 500, InternalServerError)
       ELSE IF FindById("User", CallerId(r).v) = {}
       THEN Respond(r, 404, Message("User not found"))
       ELSE \E u \in FindById("User", CallerId(r).v) : Respond(r, 200, [doc |-> UserJson(u)])
    /\ UNCHANGED <<db, oidSeq, now>>

\* the rules runValidators checks on the paths that {$set: updatedData} names; the
\* password it sees is the bcrypt hash when the body's password was truthy
UserUpdateFails(body) ==
    \/ body.username.t # "undefined" /\ UsernameBroken(body.username)
    \/ body.email.t # "undefined" /\ EmailBroken(body.email)
    \/ body.password.t # "undefined" /\
           (IF Truthy(body.password) THEN BcryptHashLength
            ELSE Len(StringOf(body.password))) \notin PasswordMinLength..PasswordMaxLength
    \/ DateCastFails(body.birthDate) \/ BirthDateBroken(body.birthDate)

\* (mutant) the user replaced by updatedData: a path the body does not name is unset
UserAfterReplace(u, body) ==
    [_id |-> u._id,
     username |-> IF body.username.t = "undefined" THEN Undefined
                  ELSE UsernameKey(body.username),
     email |-> IF body.email.t = "undefined" THEN Undefined ELSE EmailKey(body.email),
     password |-> IF body.password.t = "undefined" THEN u.password
                  ELSE Hash(StringOf(body.password)),
     birthDate |-> body.birthDate,
     createdAt |-> u.createdAt, updatedAt |-> now]

\* the user after {$set: updatedData}; timestamps: true sets updatedAt
UserAfterSet(u, body) ==
    [_id |-> u._id,
     username |-> IF body.username.t = "undefined" THEN u.username
                  ELSE UsernameKey(body.username),
     email |-> IF body.email.t = "undefined" THEN u.email ELSE EmailKey(body.email),
     password |-> IF body.password.t = "undefined" THEN u.password
                  ELSE IF Truthy(body.password) THEN Hash(StringOf(body.password))
                  ELSE Str(StringOf(body.password)),
     birthDate |-> IF body.birthDate.t = "undefined" THEN u.birthDate ELSE body.birthDate,
     createdAt |-> u.createdAt, updatedAt |-> now]

updateCurrentUser(r) ==
    LET body == req[r].rq.body IN
    /\ At(r, "updateCurrentUser", "start")
    /\ IF \/ Truthy(body.password) /\ body.password.t # "string"
          \/ NoCaller(r) \/ OidCastFails(CallerId(r))
          \/ UserUpdateFails(body)
       THEN Respond(r, 500, InternalServerError) /\ UNCHANGED db
       ELSE IF FindById("User", CallerId(r).v) = {}
       THEN Respond(r, 404, Message("User not found")) /\ UNCHANGED db
       ELSE \E u \in FindById("User", CallerId(r).v) :
                LET v == UserAfterSet(u, body) IN
                IF DuplicateKey(db.User \ {u}, v.username, v.email)
                THEN Respond(r, 500, InternalServerError) /\ UNCHANGED db
                ELSE /\ db' = [db EXCEPT !.User = (@ \ {u}) \cup {v}]
                     /\ Respond(r, 200, [doc |-> UserJson(v)])
    /\ UNCHANGED <<oidSeq, now>>

\* (mutant) a delete that takes the user's tracks and playlists along
deleteCurrentUserCascade(r) ==
    /\ At(r, "deleteCurrentUser", "start")
    /\ IF NoCaller(r) \/ OidCastFails(CallerId(r))
       THEN Respond(r, 500, InternalServerError) /\ UNCHANGED db
       ELSE IF FindById("User", CallerId(r).v) = {}
       THEN Respond(r, 404, Message("User not found")) /\ UNCHANGED db
       ELSE /\ db' = [User |-> db.User \ FindById("User", CallerId(r).v),
                      Track |-> db.Track \ FindByOwner("Track", CallerId(r)),
                      Playlist |-> db.Playlist \ FindByOwner("Playlist", CallerId(r))]
            /\ Respond(r, 200, Message("User removed successfully"))
    /\ UNCHANGED <<oidSeq, now>>

\* (mutant) a delete whose filter is empty: the first user found goes
deleteFirstUser(r) ==
    /\ At(r, "deleteCurrentUser", "start")
    /\ IF NoCaller(r) \/ OidCastFails(CallerId(r))
       THEN Respond(r, 500, InternalServerError) /\ UNCHANGED db
       ELSE IF db.User = {}
       THEN Respond(r, 404, Message("User not found")) /\ UNCHANGED db
       ELSE /\ db' = [db EXCEPT !.User =
                         @ \ {CHOOSE u \in @ : \A v \in @ : u._id <= v._id}]
            /\ Respond(r, 200, Message("User removed successfully"))
    /\ UNCHANGED <<oidSeq, now>>

deleteCurrentUser(r) ==
    /\ At(r, "deleteCurrentUser", "start")
    /\ IF NoCaller(r) \/ OidCastFails(CallerId(r))
       THEN Respond(r, 500, InternalServerError) /\ UNCHANGED db
       ELSE IF FindById("User", CallerId(r).v) = {}
       THEN Respond(r, 404, Message("User not found")) /\ UNCHANGED db
       ELSE /\ db' = [db EXCEPT !.User = @ \ FindById("User", CallerId(r).v)]
            /\ Respond(r, 200, Message("User removed successfully"))
    /\ UNCHANGED <<oidSeq, now>>

\* time passes
Tick ==
    /\ now + TickMinutes <= MaxTime
    /\ now' = now + TickMinutes
    /\ UNCHANGED <<db, oidSeq, req>>

----------------------------------------------------------------------------
(* The system and the requests clients send *)

Init ==
    /\ db = [User |-> {}, Track |-> {}, Playlist |-> {}]
    /\ oidSeq = [User |-> 0, Track |-> 0, Playlist |-> 0]
    /\ now = 0
    /\ req = [r \in Reqs |-> IdleSlot]

\* the identity claim of a token: {id} as the tests sign it, {id, username, email}
\* as loginUser signs it
Claim(id, username, email) ==
    [t |-> "object", id |-> id, username |-> username, email |-> email]

Bearer(j) == Str(<<Lit("Bearer"), Sp, Tok(j)>>)

\* a token of user u that does not expire, signed with the configured secret
TokenOf(u) ==
    JwtSign([user |-> Claim(Oid(u), Undefined, Undefined)], ACCESS_TOKEN_SECRET, Undefined)

Arr(a) == [t |-> "array", v |-> a]

NoBody == [userId |-> Undefined, title |-> Undefined, description |-> Undefined,
           genre |-> Undefined, trackIds |-> Undefined]

\* request bodies for tracks and playlists: a valid one whose title needs trimming,
\* a blank title, and bodies that name an owner
ResourceBodies ==
    {[NoBody EXCEPT !.title = Str(<<" ", "b">>), !.description = Str(<<"d">>),
                    !.genre = Str(<<"g">>), !.trackIds = Arr(<<Oid(1)>>)],
     [NoBody EXCEPT !.title = Str(<<" ">>)]}
    \cup {[NoBody EXCEPT !.userId = Oid(u)] : u \in UserIds}

Request(op, authorization, id, body) ==
    [op |-> op, authorization |-> authorization, id |-> id, body |-> body,
     query |-> NoQuery]

WithQuery(rq, query) == [rq EXCEPT !.query = query]

\* POST, PATCH /:id and DELETE /:id on /tracks and /playlists with a valid token
ResourceRequests ==
    {Request(op, Bearer(TokenOf(u)), Undefined, b) :
        op \in {"createNewTrack", "createNewPlaylist"}, u \in UserIds, b \in ResourceBodies}
    \cup {Request("updateExistingTrack", Bearer(TokenOf(u)), Oid(i), b) :
        u \in UserIds, i \in 1..MaxTracks, b \in ResourceBodies}
    \cup {Request("updateExistingPlaylist", Bearer(TokenOf(u)), Oid(i), b) :
        u \in UserIds, i \in 1..MaxPlaylists, b \in ResourceBodies}
    \cup {Request("deleteExistingTrack", Bearer(TokenOf(u)), Oid(i), NoBody) :
        u \in UserIds, i \in 1..MaxTracks}
    \cup {Request("deleteExistingPlaylist", Bearer(TokenOf(u)), Oid(i), NoBody) :
        u \in UserIds, i \in 1..MaxPlaylists}

NextResources ==
    \E r \in Reqs :
        \/ \E rq \in ResourceRequests : Receive(r, rq)
        \/ createNewTrack(r)
        \/ updateExistingTrack(r)
        \/ deleteExistingTrack(r)
        \/ createNewPlaylist(r)
        \/ updateExistingPlaylist(r)
        \/ deleteExistingPlaylist(r)
        \/ storeError(r)
        \/ Release(r)

\* tracks and playlists under concurrent create, update and delete requests
SpecResources == Init /\ [][NextResources]_vars

\* Authorization headers: none, the empty string, another scheme, the scheme in
\* lower case, the scheme alone, no token, two spaces, a token that is no JWT,
\* a foreign signature, a token that expires, a token that does not, a trailing piece
GateHeaders ==
    {Undefined,
     Str(<<>>),
     Str(<<Lit("Basic"), Sp, Tok(TokenOf(1))>>),
     Str(<<Lit("bearer"), Sp, Tok(TokenOf(1))>>),
     Str(<<Lit("Bearer")>>),
     Str(<<Lit("Bearer"), Sp>>),
     Str(<<Lit("Bearer"), Sp, Sp, Tok(TokenOf(1))>>),
     Str(<<Lit("Bearer"), Sp, Lit("abc")>>),
     Bearer(JwtSign([user |-> Claim(Oid(1), Undefined, Undefined)], OtherSecret, Undefined)),
     Bearer(JwtSign([user |-> Claim(Oid(1), Str(<<"b", "o", "b">>), Str(<<"a", "@", "x">>))],
                    ACCESS_TOKEN_SECRET, Num(ExpiresIn))),
     Bearer(TokenOf(1)),
     Str(<<Lit("Bearer"), Sp, Tok(TokenOf(2)), Sp, Lit("abc")>>)}

NoUserBody == [username |-> Undefined, email |-> Undefined, password |-> Undefined,
               birthDate |-> Undefined]

\* every bearer-protected route under every header
GateRequests ==
    {Request(op, h, Oid(1),
             IF CollectionOf(op) = "User" THEN NoUserBody
             ELSE [NoBody EXCEPT !.title = Str(<<"b">>)]) :
        op \in ProtectedOps, h \in GateHeaders}

\* the gate runs to its end within one call, so one request at a time shows all of it
GateReqs == {1}

NextGate ==
    \/ Tick
    \/ \E r \in GateReqs :
        \/ \E rq \in GateRequests : Receive(r, rq)
        \/ fetchExistingTracks(r)
        \/ createNewTrack(r)
        \/ updateExistingTrack(r)
        \/ deleteExistingTrack(r)
        \/ fetchExistingPlaylists(r)
        \/ createNewPlaylist(r)
        \/ updateExistingPlaylist(r)
        \/ deleteExistingPlaylist(r)
        \/ fetchCurrentUser(r)
        \/ updateCurrentUser(r)
        \/ deleteCurrentUser(r)
        \/ exports(r)
        \/ storeError(r)
        \/ Release(r)

\* the protected routes under good and bad Authorization headers, as time passes
SpecGate == Init /\ [][NextGate]_vars

Bob == <<"b", "o", "b">>
Ann == <<"a", "n", "n">>
EmailA == <<"a", "@", "x">>
EmailAUpper == <<"A", "@", "x">>
EmailB == <<"b", "@", "x">>
Password1 == <<"p", "a", "s", "s", "w", "o", "r", "d">>
Password2 == <<"1", "2", "3", "4", "5", "6", "7", "8">>

\* POST /users/register, POST /users/login and DELETE /users/me
UserRequests ==
    {Request("registerUser", Undefined, Undefined,
             [NoUserBody EXCEPT !.username = Str(n), !.email = Str(e),
                                !.password = Str(Password1)]) :
        n \in {Bob, Ann}, e \in {EmailA, EmailAUpper, EmailB}}
    \cup {Request("registerUser", Undefined, Undefined,
                  [NoUserBody EXCEPT !.username = Str(Bob), !.email = Str(EmailA)])}
    \cup {Request("loginUser", Undefined, Undefined,
                  [NoUserBody EXCEPT !.email = e, !.password = p]) :
        e \in {Str(EmailA), Str(EmailB)},
        p \in {Str(Password1), Str(Password2), Num(12345678)}}
    \cup {Request("loginUser", Undefined, Undefined,
                  [NoUserBody EXCEPT !.email = Str(EmailA)])}
    \cup {Request("deleteCurrentUser", Bearer(TokenOf(u)), Undefined, NoUserBody) :
        u \in UserIds}

NextUsers ==
    \E r \in Reqs :
        \/ \E rq \in UserRequests : Receive(r, rq)
        \/ registerUser(r)
        \/ loginUser(r)
        \/ deleteCurrentUser(r)
        \/ storeError(r)
        \/ Release(r)

\* registration, login and account deletion under concurrent requests
SpecUsers == Init /\ [][NextUsers]_vars

\* queries of GET /tracks: by title (case and "." at work), genre, tags, dates
TrackQueries ==
    {NoQuery,
     [NoQuery EXCEPT !.title = Str(<<"b">>)],
     [NoQuery EXCEPT !.title = Str(<<"b", ".">>)],
     [NoQuery EXCEPT !.title = Str(<<"x">>)],
     [NoQuery EXCEPT !.genre = Str(<<"G">>)],
     [NoQuery EXCEPT !.tags = Str(<<"t">>)],
     [NoQuery EXCEPT !.tags = Str(<<",", " ">>)],
     [NoQuery EXCEPT !.createdAt = Instant(0)],
     [NoQuery EXCEPT !.updatedAt = Instant(1)],
     [NoQuery EXCEPT !.updatedAt = Str(<<"x">>)]}

TrackBody == [NoBody EXCEPT !.title = Str(<<" ", "B", "c">>), !.genre = Str(<<"g">>)]
PlaylistBody == [NoBody EXCEPT !.title = Str(<<"p">>), !.trackIds = Arr(<<Oid(1)>>)]

\* an id that is no ObjectId
MalformedId == Str(<<"x">>)

\* tracks and playlists created, listed, changed, deleted and exported by either
\* user, ids well-formed and not, and exports without a valid token
LibraryRequests ==
    {Request("createNewTrack", Bearer(TokenOf(u)), Undefined, TrackBody) : u \in UserIds}
    \cup {Request("createNewPlaylist", Bearer(TokenOf(u)), Undefined, PlaylistBody) :
             u \in UserIds}
    \cup {WithQuery(Request("fetchExistingTracks", Bearer(TokenOf(1)), Undefined, NoBody), q) :
             q \in TrackQueries}
    \cup {WithQuery(Request("fetchExistingPlaylists", Bearer(TokenOf(1)), Undefined, NoBody),
                    [NoQuery EXCEPT !.title = Str(<<"x">>)])}
    \cup {Request(op, Bearer(TokenOf(u)), Undefined, NoBody) :
             op \in {"fetchExistingTracks", "fetchExistingPlaylists", "exports"},
             u \in UserIds}
    \cup {Request("exports", h, Undefined, NoBody) :
             h \in {Undefined,
                    Bearer(JwtSign([user |-> Claim(Oid(1), Undefined, Undefined)],
                                   OtherSecret, Undefined))}}
    \cup {Request(op, Bearer(TokenOf(u)), Oid(1), b) :
             op \in {"updateExistingTrack", "updateExistingPlaylist"}, u \in UserIds,
             b \in {[NoBody EXCEPT !.title = Str(<<"z">>)]}
                   \cup {[NoBody EXCEPT !.userId = Oid(v)] : v \in UserIds}}
    \cup {Request(op, Bearer(TokenOf(u)), Oid(1), NoBody) :
             op \in {"deleteExistingTrack", "deleteExistingPlaylist"}, u \in UserIds}
    \cup {Request(op, Bearer(TokenOf(1)), MalformedId, [NoBody EXCEPT !.title = Str(<<"z">>)]) :
             op \in {"updateExistingTrack", "updateExistingPlaylist",
                     "deleteExistingTrack", "deleteExistingPlaylist"}}

NextLibrary ==
    \E r \in Reqs :
        \/ \E rq \in LibraryRequests : Receive(r, rq)
        \/ fetchExistingTracks(r)
        \/ createNewTrack(r)
        \/ updateExistingTrack(r)
        \/ deleteExistingTrack(r)
        \/ fetchExistingPlaylists(r)
        \/ createNewPlaylist(r)
        \/ updateExistingPlaylist(r)
        \/ deleteExistingPlaylist(r)
        \/ exports(r)
        \/ storeError(r)
        \/ Release(r)

\* the library of tracks and playlists, read and written by concurrent requests
SpecLibrary == Init /\ [][NextLibrary]_vars

ShortPassword == <<"p", "w">>

\* one or two requests for every route: accepted and refused by the gate, with
\* bodies and ids that pass and that fail
RespondRequests ==
    {Request("registerUser", Undefined, Undefined, b) :
        b \in {[NoUserBody EXCEPT !.username = Str(Bob), !.email = Str(EmailA),
                                  !.password = Str(Password1)],
               [NoUserBody EXCEPT !.username = Str(Bob), !.email = Str(EmailA)]}}
    \cup {Request("loginUser", Undefined, Undefined,
                  [NoUserBody EXCEPT !.email = Str(EmailA), !.password = p]) :
        p \in {Str(Password1), Num(12345678)}}
    \cup {Request(op, Bearer(TokenOf(1)), Undefined,
                  [NoUserBody EXCEPT !.username = Str(Ann)]) : op \in MeOps}
    \cup {Request(op, Bearer(TokenOf(1)), Undefined, b) :
        op \in {"createNewTrack", "createNewPlaylist"},
        b \in {TrackBody, [NoBody EXCEPT !.title = Str(<<" ">>)]}}
    \cup {Request(op, Bearer(TokenOf(1)), Undefined, NoBody) :
        op \in {"fetchExistingTracks", "fetchExistingPlaylists", "exports"}}
    \cup {Request(op, Bearer(TokenOf(u)), Oid(1), [NoBody EXCEPT !.title = Str(<<"z">>)]) :
        op \in {"updateExistingTrack", "updateExistingPlaylist",
                "deleteExistingTrack", "deleteExistingPlaylist"}, u \in UserIds}
    \cup {Request("updateExistingTrack", Bearer(TokenOf(1)), MalformedId, NoBody)}
    \cup {Request("fetchExistingTracks", h, Undefined, NoBody) :
        h \in {Undefined, Str(<<Lit("Bearer"), Sp, Lit("abc")>>)}}

\* the steps that the handler of the request in slot r takes itself
Handle(r) ==
    \/ registerUser(r)
    \/ loginUser(r)
    \/ fetchCurrentUser(r)
    \/ updateCurrentUser(r)
    \/ deleteCurrentUser(r)
    \/ fetchExistingTracks(r)
    \/ createNewTrack(r)
    \/ updateExistingTrack(r)
    \/ deleteExistingTrack(r)
    \/ fetchExistingPlaylists(r)
    \/ createNewPlaylist(r)
    \/ updateExistingPlaylist(r)
    \/ deleteExistingPlaylist(r)
    \/ exports(r)

\* what the second client sends while the first one's request runs: the deletions
\* that take a document away between two steps of another handler
DeleteRequests ==
    {rq \in RespondRequests :
        /\ rq.op \in {"deleteExistingTrack", "deleteCurrentUser"}
        /\ rq.authorization = Bearer(TokenOf(1))}

NextResponds ==
    \E r \in Reqs :
        \/ \E rq \in (IF r = 1 THEN RespondRequests ELSE DeleteRequests) : Receive(r, rq)
        \/ Handle(r)
        \/ storeError(r)
        \/ Release(r)

\* every route, where each store operation a handler awaits settles in the end
SpecResponds ==
    Init /\ [][NextResponds]_vars /\ \A r \in Reqs : WF_vars(Handle(r) \/ storeError(r))

\* the whole life of an account: register (valid bodies, a numeric password, a
\* short password, birth dates in and out of range), login, and GET, PATCH and
\* DELETE /users/me with the token of either user id
AccountRequests ==
    {Request("registerUser", Undefined, Undefined, b) :
        b \in {[NoUserBody EXCEPT !.username = Str(Bob), !.email = Str(EmailAUpper),
                                  !.password = Str(Password1)],
               [NoUserBody EXCEPT !.username = Str(Ann), !.email = Str(EmailB),
                                  !.password = Num(12345678), !.birthDate = Date(MaxAgeYears)],
               [NoUserBody EXCEPT !.username = Str(Ann), !.email = Str(EmailB),
                                  !.password = Str(ShortPassword)],
               [NoUserBody EXCEPT !.username = Str(Ann), !.email = Str(EmailB),
                                  !.password = Str(Password1), !.birthDate = Date(-1)],
               [NoUserBody EXCEPT !.username = Str(Ann), !.email = Str(EmailB),
                                  !.password = Str(Password1),
                                  !.birthDate = Date(MaxAgeYears + 1)]}}
    \cup {Request("loginUser", Undefined, Undefined,
                  [NoUserBody EXCEPT !.email = e, !.password = p]) :
        e \in {Str(EmailAUpper), Str(EmailB)},
        p \in {Str(Password1), Str(Password2), Num(12345678)}}
    \cup {Request("updateCurrentUser", Bearer(TokenOf(u)), Undefined, b) :
        u \in UserIds,
        b \in {[NoUserBody EXCEPT !.password = Str(Password2)],
               [NoUserBody EXCEPT !.password = Str(<<>>)],
               [NoUserBody EXCEPT !.username = Str(Ann), !.email = Str(EmailB)]}}
    \cup {Request(op, Bearer(TokenOf(u)), Undefined, NoUserBody) :
        op \in {"fetchCurrentUser", "deleteCurrentUser"}, u \in UserIds}

NextAccount ==
    \E r \in Reqs :
        \/ \E rq \in AccountRequests : Receive(r, rq)
        \/ registerUser(r)
        \/ loginUser(r)
        \/ fetchCurrentUser(r)
        \/ updateCurrentUser(r)
        \/ deleteCurrentUser(r)
        \/ storeError(r)
        \/ Release(r)

\* accounts from registration to deletion, under concurrent requests
SpecAccount == Init /\ [][NextAccount]_vars

\* PATCH /users/me without a password: a free username, a taken one, one that is
\* too short, an email, an empty body
ProfileBodies ==
    {[NoUserBody EXCEPT !.username = Str(Ann)],
     [NoUserBody EXCEPT !.username = Str(<<"a", "b">>)],
     [NoUserBody EXCEPT !.email = Str(EmailB)],
     NoUserBody}

ProfileRequests ==
    {Request("registerUser", Undefined, Undefined,
             [NoUserBody EXCEPT !.username = Str(ne[1]), !.email = Str(ne[2]),
                                !.password = Str(Password1)]) :
        ne \in {<<Bob, EmailA>>, <<Ann, EmailB>>}}
    \cup {Request("loginUser", Undefined, Undefined,
                  [NoUserBody EXCEPT !.email = Str(EmailA), !.password = Str(Password1)])}
    \cup {Request("updateCurrentUser", Bearer(TokenOf(1)), Undefined, b) :
        b \in ProfileBodies}
    \cup {Request("deleteCurrentUser", Bearer(TokenOf(1)), Undefined, NoUserBody)}

NextProfile ==
    \/ \E r \in Reqs :
        \/ \E rq \in ProfileRequests : Receive(r, rq)
        \/ registerUser(r)
        \/ loginUser(r)
        \/ updateCurrentUser(r)
        \/ deleteCurrentUser(r)
        \/ storeError(r)
        \/ Release(r)
    \/ Tick

\* profiles changed over time, under concurrent requests
SpecProfile == Init /\ [][NextProfile]_vars

\* the client that holds the 200 response of its login in slot q sends a request
\* to /users/me with the access token of that response
SendWithToken(r, q) ==
    /\ q # r
    /\ req[q].pc = "done" /\ req[q].rq.op = "loginUser"
    /\ req[q].res[1].status = 200
    /\ \E op \in {"fetchCurrentUser", "deleteCurrentUser"} :
           Receive(r, Request(op, Bearer(req[q].res[1].json.accessToken), Undefined,
                              NoUserBody))

SessionRequests ==
    {Request(op, Undefined, Undefined,
             [NoUserBody EXCEPT !.username = Str(Bob), !.email = Str(EmailA),
                                !.password = Str(Password1)]) :
        op \in {"registerUser", "loginUser"}}

NextSession ==
    \/ \E r \in Reqs :
        \/ \E rq \in SessionRequests : Receive(r, rq)
        \/ \E q \in Reqs : SendWithToken(r, q)
        \/ registerUser(r)
        \/ loginUser(r)
        \/ fetchCurrentUser(r)
        \/ deleteCurrentUser(r)
        \/ storeError(r)
        \/ Release(r)
    \/ Tick

\* a user registers, stores a track and a playlist that names it, and deletes the
\* track and the account
LeavingRequests ==
    {Request("registerUser", Undefined, Undefined,
             [NoUserBody EXCEPT !.username = Str(Bob), !.email = Str(EmailA),
                                !.password = Str(Password1)]),
     Request("createNewTrack", Bearer(TokenOf(1)), Undefined, TrackBody),
     Request("createNewPlaylist", Bearer(TokenOf(1)), Undefined, PlaylistBody),
     Request("deleteExistingTrack", Bearer(TokenOf(1)), Oid(1), NoBody),
     Request("deleteCurrentUser", Bearer(TokenOf(1)), Undefined, NoUserBody)}

NextLeaving ==
    \E r \in Reqs :
        \/ \E rq \in LeavingRequests : Receive(r, rq)
        \/ registerUser(r)
        \/ createNewTrack(r)
        \/ createNewPlaylist(r)
        \/ deleteExistingTrack(r)
        \/ deleteCurrentUser(r)
        \/ storeError(r)
        \/ Release(r)

\* an account and its library, deleted piece by piece
SpecLeaving == Init /\ [][NextLeaving]_vars

\* a user registers, logs in and uses the token of the login as time passes
SpecSession == Init /\ [][NextSession]_vars

----------------------------------------------------------------------------
(* Reading a slot *)

Op(r) == req[r].rq.op
Over(r) == req[r].pc = "done"
Status(r) == req[r].res[Len(req[r].res)].status
Json(r) == req[r].res[Len(req[r].res)].json

UpdateOps == {"updateExistingTrack", "updateExistingPlaylist"}
DeleteOps == {"deleteExistingTrack", "deleteExistingPlaylist"}
ResourceCreateOps == {"createNewTrack", "createNewPlaylist"}

\* the stored track or playlist that the request in slot r names by :id
Target(r) == FindById(CollectionOf(Op(r)), req[r].rq.id.v)

\* the request in slot r takes a step
Steps(r) == req'[r] # req[r]

\* the step of slot r ends its request with this status
Ends(r, status) ==
    /\ req'[r].pc = "done"
    /\ req'[r].res = Append(req[r].res, req'[r].res[Len(req'[r].res)])
    /\ req'[r].res[Len(req'[r].res)].status = status

\* the step of slot r ends its request because the store operation rejected
StoreRejects(r) ==
    Ends(r, 500) /\ req'[r].res[Len(req'[r].res)].json = InternalServerError

----------------------------------------------------------------------------
(* C1 .. C4: ownership *)

ForbiddenMessages ==
    {"User does not have permission to update another user's track",
     "User does not have permission to delete another user's track",
     "User does not have permission to update another user's playlist",
     "User does not have permission to delete another user's playlist"}

\* C1: when the ownership check of PATCH /:id or DELETE /:id finds the resource
\* stored with an owner other than the caller, the request ends there with 403 and
\* the store is as before (unless the lookup itself rejects: 500, store as before).
C1_NonOwnerForbidden ==
    [][\A r \in Reqs :
          (/\ Op(r) \in UpdateOps \cup DeleteOps
           /\ req[r].pc = "start"
           /\ Steps(r)
           /\ \E d \in Target(r) : Oid(d.userId) # CallerId(r))
          => /\ db' = db
             /\ \/ StoreRejects(r)
                \/ Ends(r, 403) /\ req'[r].res[1].json.message \in ForbiddenMessages]_vars

\* a PATCH or DELETE by a caller who is not the owner was answered 403 and the
\* resource is still stored, owned by the other user
C1_Witness ==
    \E r \in Reqs :
        /\ Over(r)
        /\ Op(r) \in UpdateOps \cup DeleteOps
        /\ Status(r) = 403
        /\ \E d \in Target(r) : Oid(d.userId) # CallerId(r)

\* C2 (as claimed): the userId of a stored track or playlist never changes.
C2_OwnerImmutable ==
    [][\A coll \in {"Track", "Playlist"} :
          \A d \in db[coll] : \A e \in db'[coll] : e._id = d._id => e.userId = d.userId]_vars

\* the body of the request in slot r passes the casts and rules of its schema
BodyAccepted(r) ==
    LET coll == CollectionOf(Op(r))
        b == IF Op(r) \in ResourceCreateOps THEN CreateFields(r) ELSE req[r].rq.body
    IN  /\ ~OidCastFails(b.userId)
        /\ "trackIds" \in SchemaPaths(coll) => ~TrackIdsCastFails(b.trackIds)
        /\ \A p \in StringPaths(coll) :
               b[p].t = "string" => Len(Trim(b[p].v)) \in 1..MaxLength(p)

\* document d holds the values the body of slot r gives: as sent, or trimmed
HoldsBody(r, d, trimmed) ==
    LET coll == CollectionOf(Op(r))
        b == req[r].rq.body
    IN  /\ \A p \in StringPaths(coll) :
               b[p].t = "string" => d[p] = Str(IF trimmed THEN Trim(b[p].v) ELSE b[p].v)
        /\ ("trackIds" \in SchemaPaths(coll) /\ b.trackIds.t = "array") =>
               d.trackIds = [i \in 1..Len(b.trackIds.v) |-> b.trackIds.v[i].v]

OwnerCalls(r) == Target(r) # {} /\ \A d \in Target(r) : Oid(d.userId) = CallerId(r)

\* the two steps of PATCH /:id and DELETE /:id by the owner of a stored resource
OwnerPasses(r) ==
    (Op(r) \in UpdateOps \cup DeleteOps /\ req[r].pc = "start" /\ Steps(r) /\ OwnerCalls(r))
    => /\ db' = db
       /\ \/ StoreRejects(r)
          \/ req'[r] = [req[r] EXCEPT !.pc = req'[r].pc] /\ InFlight(r)'

OwnerDeletes(r) ==
    (Op(r) \in DeleteOps /\ req[r].pc = "findByIdAndDelete" /\ Steps(r))
    => \/ (StoreRejects(r) /\ db' = db)
       \/ (Ends(r, 200) /\ Target(r)' = {})

OwnerUpdates(r, accepted, trimmed) ==
    (Op(r) \in UpdateOps /\ req[r].pc = "findByIdAndUpdate" /\ Steps(r) /\ OwnerCalls(r)
     /\ accepted)
    => \/ (StoreRejects(r) /\ db' = db)
       \/ /\ Ends(r, 200)
          /\ Target(r)' # {}
          /\ \A d \in Target(r)' : HoldsBody(r, d, trimmed)

\* C3 (as claimed): the owner's PATCH of a stored resource responds 200 and the store
\* then holds the body's values; the owner's DELETE responds 200 and removes it.
C3_Original ==
    [][\A r \in Reqs : OwnerPasses(r) /\ OwnerDeletes(r) /\ OwnerUpdates(r, TRUE, FALSE)]_vars

\* C3 (amended): the same for a body that passes the schema's casts and rules, the
\* store then holding the body's strings trimmed (a store operation that rejects
\* gives 500 and changes nothing).
C3_OwnerMutates ==
    [][\A r \in Reqs :
          OwnerPasses(r) /\ OwnerDeletes(r) /\ OwnerUpdates(r, BodyAccepted(r), TRUE)]_vars

\* an owner's PATCH with the title " b" was answered 200 and the resource is stored
\* with the title "b"
C3_Witness ==
    \E r \in Reqs :
        /\ Over(r) /\ Op(r) \in UpdateOps /\ Status(r) = 200
        /\ req[r].rq.body.title = Str(<<" ", "b">>)
        /\ \E d \in Target(r) : Oid(d.userId) = CallerId(r) /\ d.title = Str(<<"b">>)

\* the step of slot r is the store operation of POST /tracks or POST /playlists
Creates(r) == Op(r) \in ResourceCreateOps /\ req[r].pc = "start" /\ Steps(r)

\* the step stores exactly one new document in the collection of slot r, owned by
\* its caller
StoresOwn(r) ==
    LET coll == CollectionOf(Op(r)) IN
    /\ db[coll] \subseteq db'[coll]
    /\ \E d \in db'[coll] \ db[coll] :
           /\ db'[coll] = db[coll] \cup {d}
           /\ Oid(d.userId) = CallerId(r)
           /\ \A e \in db[coll] : e._id # d._id

\* C4 (as claimed): every POST /tracks and POST /playlists responds 201 and stores a
\* new resource owned by the caller.
C4_Original ==
    [][\A r \in Reqs : Creates(r) => StoreRejects(r) \/ (Ends(r, 201) /\ StoresOwn(r))]_vars

\* C4 (amended): a POST whose body passes the schema's rules responds 201 and stores
\* a new resource owned by the caller, whatever userId the body names; one whose
\* body breaks a rule responds 400 and stores nothing; and no step stores a new
\* track or playlist owned by anyone but the caller of the request taking the step.
C4_CreateOwnedByCaller ==
    [][/\ \A r \in Reqs :
            Creates(r) => \/ (StoreRejects(r) /\ db' = db)
                          \/ (BodyAccepted(r) /\ Ends(r, 201) /\ StoresOwn(r))
                          \/ (~BodyAccepted(r) /\ Ends(r, 400) /\ db' = db)
       /\ \A coll \in {"Track", "Playlist"} : \A d \in db'[coll] :
            (\A e \in db[coll] : e._id # d._id) =>
                \E r \in Reqs : Creates(r) /\ Oid(d.userId) = CallerId(r)]_vars

\* a POST whose body names another user as userId was answered 201 and the new
\* resource is stored with the caller as its owner
C4_Witness ==
    \E r \in Reqs :
        /\ Over(r) /\ Op(r) \in ResourceCreateOps /\ Status(r) = 201
        /\ req[r].rq.body.userId.t = "oid" /\ req[r].rq.body.userId # CallerId(r)
        /\ Json(r).doc \in db[CollectionOf(Op(r))]
        /\ Oid(Json(r).doc.userId) = CallerId(r)

----------------------------------------------------------------------------
(* C5 .. C7: the gate *)

\* the header is absent or does not start with "Bearer "
LacksBearer(h) ==
    \/ h.t = "undefined"
    \/ Len(h.v) < 2
    \/ h.v[1] # Lit("Bearer")
    \/ h.v[2] # Sp

\* what follows "Bearer " up to the next space
SentToken(h) == SplitSp(h.v)[2]

\* the token is empty, malformed, signed with another secret, or expired at time t
BadToken(h, t) ==
    \/ SentToken(h) = <<>>
    \/ Len(SentToken(h)) # 1
    \/ SentToken(h)[1].k # "tok"
    \/ SentToken(h)[1].jwt.sig # ACCESS_TOKEN_SECRET
    \/ SentToken(h)[1].jwt.exp.t = "number" /\ SentToken(h)[1].jwt.exp.v <= t

\* the step of slot r answers from the gate: one response, next() never called
GateAnswers(r, message) ==
    /\ req'[r].pc = "done"
    /\ req'[r].res = <<[status |-> 401, json |-> [message |-> message]]>>
    /\ req'[r].nexts = 0
    /\ db' = db

\* C5: a request to a protected route whose Authorization header is absent or does
\* not start with "Bearer " is answered 401 "User is not authorized or token is
\* missing" by the gate, next() is not called and the store is unchanged.
C5_MissingOrNotBearer ==
    [][\A r \in Reqs :
          (/\ Steps(r)
           /\ req'[r].rq.op \in ProtectedOps
           /\ LacksBearer(req'[r].rq.authorization))
          => GateAnswers(r, "User is not authorized or token is missing")]_vars

C5_Witness ==
    \E r \in Reqs :
        /\ Op(r) \in ProtectedOps /\ Over(r)
        /\ Truthy(req[r].rq.authorization) /\ LacksBearer(req[r].rq.authorization)
        /\ Status(r) = 401 /\ req[r].nexts = 0
        /\ db.Track # {}

\* C6: a request to a protected route with a "Bearer <token>" header whose token is
\* empty, malformed, expired or signed with another secret is answered 401 "User is
\* not authorized" by the gate, next() is not called and the store is unchanged.
C6_BadTokenRejected ==
    [][\A r \in Reqs :
          (/\ Steps(r)
           /\ req[r].pc = "idle"
           /\ req'[r].rq.op \in ProtectedOps
           /\ ~LacksBearer(req'[r].rq.authorization)
           /\ BadToken(req'[r].rq.authorization, now))
          => GateAnswers(r, "User is not authorized")]_vars

C6_Witness ==
    \E r \in Reqs :
        /\ Op(r) \in ProtectedOps /\ Over(r)
        /\ ~LacksBearer(req[r].rq.authorization)
        /\ Len(SentToken(req[r].rq.authorization)) = 1
        /\ SentToken(req[r].rq.authorization)[1].k = "tok"
        /\ SentToken(req[r].rq.authorization)[1].jwt.sig = ACCESS_TOKEN_SECRET
        /\ SentToken(req[r].rq.authorization)[1].jwt.exp = Num(now)
        /\ Status(r) = 401 /\ Json(r) = Message("User is not authorized")
        /\ db.Track # {}

\* C7: on a protected route the handler takes steps only for a request whose token
\* the gate verified; for such a request the gate calls next() exactly once and
\* req.user is the user claim of the token, and stays so while the handler runs.
C7_HandlerBehindGate ==
    [][\A r \in Reqs :
          Steps(r) =>
              IF req[r].pc = "idle"
              THEN req'[r].rq.op \in ProtectedOps =>
                       IF ~LacksBearer(req'[r].rq.authorization)
                          /\ ~BadToken(req'[r].rq.authorization, now)
                       THEN /\ req'[r].pc = "start"
                            /\ req'[r].nexts = 1
                            /\ req'[r].user =
                                   SentToken(req'[r].rq.authorization)[1].jwt.payload.user
                            /\ req'[r].res = <<>>
                       ELSE req'[r].pc = "done" /\ req'[r].nexts = 0
              ELSE Op(r) \in ProtectedOps =>
                       \/ Over(r) /\ req'[r] = IdleSlot
                       \/ /\ ~Over(r)
                          /\ req[r].nexts = 1 /\ req'[r].nexts = 1
                          /\ req'[r].user = req[r].user]_vars

C7_Witness ==
    \E r \in Reqs :
        /\ Op(r) \in ProtectedOps /\ Over(r)
        /\ req[r].nexts = 1
        /\ req[r].user = Claim(Oid(1), Str(Bob), Str(EmailA))
        /\ Status(r) = 200

----------------------------------------------------------------------------
(* C8 .. C10: registration and login *)

\* C8: registerUser looks the email up and then the username; a stored user with
\* the username gives 409 "Username already taken" whether or not the email was
\* found, otherwise a found email gives 409 "Email already in use"; in both cases
\* the store is unchanged.  (A rejected lookup gives 500, store unchanged.)
C8_ConflictPrecedence ==
    [][\A r \in Reqs :
          /\ (At(r, "registerUser", "start") /\ Steps(r)
                 /\ req'[r].pc = "findOneUsername")
             => req'[r].loc =
                    Boolean(\E u \in db.User :
                               u.email.v = ToLowerCase(Trim(req[r].rq.body.email.v)))
          /\ (At(r, "registerUser", "findOneUsername") /\ Steps(r))
             => /\ db' = db
                /\ \/ StoreRejects(r)
                   \/ IF \E u \in db.User : u.username.v = Trim(req[r].rq.body.username.v)
                      THEN /\ Ends(r, 409)
                           /\ req'[r].res[1].json = Message("Username already taken")
                      ELSE IF req[r].loc.v
                      THEN /\ Ends(r, 409)
                           /\ req'[r].res[1].json = Message("Email already in use")
                      ELSE req'[r].pc = "create" /\ req'[r].res = <<>>]_vars

C8_Witness ==
    \E r \in Reqs :
        /\ Op(r) = "registerUser" /\ Over(r)
        /\ req[r].loc = Boolean(TRUE)
        /\ Status(r) = 409 /\ Json(r) = Message("Username already taken")
        /\ \E u \in db.User : u.username.v = Trim(req[r].rq.body.username.v)

\* the registrations in slots r and s carry the same username or the same email
SameIdentity(r, s) ==
    \/ Trim(req[r].rq.body.username.v) = Trim(req[s].rq.body.username.v)
    \/ ToLowerCase(Trim(req[r].rq.body.email.v)) = ToLowerCase(Trim(req[s].rq.body.email.v))

NoDuplicateUsers ==
    \A u, v \in db.User : u # v => u.username # v.username /\ u.email # v.email

\* C9: of two registerUser requests with the same username or email that overlap,
\* one creates the user and answers 201 and the other answers 409: the one that
\* reaches its create step after the other's user was stored answers 409 and leaves
\* the store unchanged; two stored users never share a username or an email.
C9_ConcurrentRegister ==
    [][/\ NoDuplicateUsers'
       /\ \A r \in Reqs : \A s \in Reqs \ {r} :
              (/\ At(r, "registerUser", "create") /\ registerUser(r)
               /\ Op(s) = "registerUser" /\ Over(s) /\ Status(s) = 201
               /\ SameIdentity(r, s)
               /\ \E u \in db.User : Oid(u._id) = Json(s)._id)
              => Ends(r, 409) /\ db' = db]_vars

\* C10: loginUser with email and password present answers 401 "Invalid credentials"
\* both when no stored user has the email and when one has it but the password is
\* not that user's.
C10_NoExistenceLeak ==
    [][\A r \in Reqs :
          (/\ At(r, "loginUser", "start") /\ loginUser(r)
           /\ Truthy(req[r].rq.body.email) /\ Truthy(req[r].rq.body.password)
           /\ \A u \in db.User :
                  u.email.v = ToLowerCase(Trim(StringOf(req[r].rq.body.email)))
                      => u.password # Hash(StringOf(req[r].rq.body.password)))
          => Ends(r, 401) /\ req'[r].res[1].json = Message("Invalid credentials")]_vars

----------------------------------------------------------------------------
(* C11 .. C15: round trips and the caller's own data *)

\* the registration in slot s answered 201 and the user it created is stored as
\* it was created
Registered(s) ==
    /\ Op(s) = "registerUser" /\ Over(s) /\ Status(s) = 201
    /\ \E u \in db.User : Oid(u._id) = Json(s)._id /\ u.email = Json(s).email

\* the accessToken passes the gate at every time before its expiry and the gate
\* attaches the id, username and email of user u
TokenCarries(token, u) ==
    \A t \in now..(now + ExpiresIn - 1) :
        LET g == validateToken(Bearer(token), t) IN
        /\ g.next
        /\ g.user.id = Oid(u._id)
        /\ g.user.username = u.username
        /\ g.user.email = u.email

\* C11: after registerUser succeeded for (username, email, password), loginUser
\* with that email and that password answers 200 with an accessToken that the gate
\* accepts until it expires, attaching the registered user's id, username and email.
C11_RegisterLoginGate ==
    [][\A r \in Reqs : \A s \in Reqs \ {r} :
          (/\ At(r, "loginUser", "start") /\ loginUser(r)
           /\ Registered(s)
           /\ req[s].rq.body.email = req[r].rq.body.email
           /\ req[s].rq.body.password = req[r].rq.body.password)
          => /\ Ends(r, 200)
             /\ \E u \in db.User :
                    /\ Oid(u._id) = Json(s)._id
                    /\ TokenCarries(req'[r].res[1].json.accessToken, u)]_vars

\* the POST /tracks in slot s answered 201 and the track it stored is still
\* stored as it was created
Created(s) ==
    /\ Op(s) = "createNewTrack" /\ Over(s) /\ Status(s) = 201
    /\ Json(s).doc \in db.Track

\* the list that the step of slot r sends holds the track of slot s, owned by the
\* caller and titled `title`
ListsTrackOf(r, s, title) ==
    /\ Ends(r, 200)
    /\ \E d \in req'[r].res[1].json.docs :
           /\ d._id = Json(s).doc._id
           /\ Oid(d.userId) = req[s].user.id
           /\ d.title = title

FetchAfterCreate(r, s) ==
    /\ At(r, "fetchExistingTracks", "start") /\ Steps(r)
    /\ req[r].rq.query = NoQuery
    /\ Created(s)
    /\ req[r].user.id = req[s].user.id

\* C12 (as claimed): after POST /tracks by U answered 201, GET /tracks by U without
\* a filter answers 200 with a list holding a track of U with the title submitted,
\* while that track is neither deleted nor updated.
C12_Original ==
    [][\A r \in Reqs : \A s \in Reqs \ {r} :
          FetchAfterCreate(r, s)
          => StoreRejects(r) \/ ListsTrackOf(r, s, req[s].rq.body.title)]_vars

\* C12 (amended): ... with a list holding a track of U whose title is the
\* submitted title without its leading and trailing whitespace.
C12_CreateThenFetch ==
    [][\A r \in Reqs : \A s \in Reqs \ {r} :
          FetchAfterCreate(r, s)
          => StoreRejects(r) \/ ListsTrackOf(r, s, Str(Trim(req[s].rq.body.title.v)))]_vars

C12_Witness ==
    \E r \in Reqs : \E s \in Reqs \ {r} :
        /\ Created(s)
        /\ Op(r) = "fetchExistingTracks" /\ Over(r) /\ Status(r) = 200
        /\ req[r].rq.query = NoQuery
        /\ req[r].user.id = req[s].user.id
        /\ Json(s).doc \in Json(r).docs
        /\ Json(s).doc.title # req[s].rq.body.title

FetchOps == {"fetchExistingTracks", "fetchExistingPlaylists"}

\* the stored resources of the collection of slot r whose userId is its caller
OwnedByCaller(r) == {d \in db[CollectionOf(Op(r))] : Oid(d.userId) = req[r].user.id}

NotFoundMessage(op) ==
    IF op = "fetchExistingTracks" THEN "No tracks found" ELSE "No playlists found"

OtherUsers(r) == {u \in db.User : Oid(u._id) # req[r].user.id}

\* C14: a step of GET, PATCH or DELETE /users/me by U leaves every user record
\* other than U's as it was and adds none, whatever the body holds, and a user
\* document in its response is U's.
C14_OwnRecordOnly ==
    [][\A r \in Reqs :
          (Op(r) \in MeOps /\ req[r].pc = "start" /\ Steps(r))
          => /\ OtherUsers(r) \subseteq db'.User
             /\ \A u \in db'.User \ db.User : Oid(u._id) = req[r].user.id
             /\ db'.Track = db.Track /\ db'.Playlist = db.Playlist
             /\ (Ends(r, 200) /\ Op(r) # "deleteCurrentUser")
                    => Oid(req'[r].res[1].json.doc._id) = req[r].user.id]_vars

C14_Witness ==
    \E r \in Reqs :
        /\ Op(r) = "updateCurrentUser"
        /\ Over(r) /\ Status(r) = 200
        /\ OtherUsers(r) # {}

\* the step of slot r sends exactly the caller's playlists
ExportsOwn(r) ==
    /\ exports(r)
    /\ Ends(r, 200)
    /\ {p._id : p \in req'[r].res[1].json.send} = {p._id : p \in OwnedByCaller(r)}

\* C15: GET /exports answers 401 without a valid bearer token; with one, the
\* handler can always answer with exactly the stored playlists whose userId is the
\* caller's, and whatever it answers, the store is unchanged and a 200 holds
\* those playlists and no others.
C15_ExportsOwn ==
    \A r \in Reqs :
        Op(r) = "exports" =>
            /\ Over(r) /\ req[r].nexts = 0 => Status(r) = 401
            /\ req[r].pc = "start" => ENABLED ExportsOwn(r)

----------------------------------------------------------------------------
(* C16 .. C20: responses, validation, passwords *)

Statuses == {200, 201, 400, 401, 403, 404, 409, 500}

\* the request in slot r has no response while it runs and one when it is over
OneResponse(r) ==
    /\ Len(req[r].res) = (IF Over(r) THEN 1 ELSE 0)
    /\ \A i \in 1..Len(req[r].res) : req[r].res[i].status \in Statuses

PasswordOutOfRange(body) ==
    /\ body.password.t = "string"
    /\ Len(body.password.v) < 8 \/ Len(body.password.v) > 30

BirthDateOutOfRange(body) ==
    body.birthDate.t = "date" /\ (body.birthDate.v < 0 \/ body.birthDate.v > 120)

UserRuleMessage(body) ==
    IF ~PasswordOutOfRange(body) THEN "Invalid birthdate"
    ELSE IF Len(body.password.v) < 8 THEN "Password must be at least 8 characters long"
    ELSE "Password must be at most 30 characters long"

\* the body is valid but for its password or its birthDate, and nobody holds its
\* username or its email
OtherwiseValid(body) ==
    /\ body.username.t = "string" /\ body.email.t = "string"
    /\ ~UsernameBroken(body.username) /\ ~EmailBroken(body.email)
    /\ \A u \in db.User :
        u.username # UsernameKey(body.username) /\ u.email # EmailKey(body.email)

\* C17: registerUser with an otherwise valid body whose password is shorter than 8
\* or longer than 30 characters, or whose birthDate is in the future or more than
\* 120 years back, answers 400 with the violated rule's message and creates no user.
C17_RegisterRuleMessage ==
    [][\A r \in Reqs :
        LET body == req[r].rq.body IN
        /\ registerUser(r) /\ At(r, "registerUser", "create")
        /\ OtherwiseValid(body)
        /\ PasswordOutOfRange(body) \/ BirthDateOutOfRange(body)
        => /\ req'[r].res = <<[status |-> 400, json |-> Message(UserRuleMessage(body))]>>
           /\ db' = db]_vars

\* the handlers of PATCH /:id and DELETE /:id
ByIdHandler(r) ==
    \/ updateExistingTrack(r)
    \/ deleteExistingTrack(r)
    \/ updateExistingPlaylist(r)
    \/ deleteExistingPlaylist(r)

\* an id that is not 24 hex digits
Malformed(id) == id.t = "string"

\* C18: PATCH and DELETE on /tracks/:id and /playlists/:id by an authenticated
\* caller with an id that is no well-formed object id answer 400, not 404 or 500,
\* and leave the store as it was.
C18_MalformedIdRefused ==
    [][\A r \in Reqs :
        /\ ByIdHandler(r)
        /\ req[r].nexts = 1 /\ Malformed(req[r].rq.id)
        => /\ Len(req'[r].res) = 1 /\ req'[r].res[1].status = 400
           /\ db' = db]_vars

\* h is what hashing the characters s gives
IsHashOf(h, s) == h = [t |-> "bcrypt", of |-> s]

\* the request in slot r ends with `status` in this step
EndsWith(r, status) ==
    /\ req[r].res = <<>>
    /\ Len(req'[r].res) = 1 /\ req'[r].res[1].status = status

\* C19: after any sequence of successful registerUser and PATCH /users/me requests
\* the credential stored for a user is the hash of the last password accepted for
\* that user, and never the password itself: a credential appears only with a 201
\* and changes only with a 200 of the user's PATCH, as the hash of that request's
\* password.
C19_StoredCredentialIsHash ==
    [][\A u \in db'.User :
        LET before == {v \in db.User : v._id = u._id} IN
        /\ u.password.t = "bcrypt"
        /\ before = {} =>
            \E r \in Reqs :
                /\ registerUser(r) /\ EndsWith(r, 201)
                /\ IsHashOf(u.password, StringOf(req[r].rq.body.password))
        /\ \A v \in before :
            u.password # v.password =>
                \E r \in Reqs :
                    /\ updateCurrentUser(r) /\ EndsWith(r, 200)
                    /\ CallerId(r) = Oid(u._id)
                    /\ IsHashOf(u.password, StringOf(req[r].rq.body.password))]_vars

\* a registered user whose PATCH /users/me was accepted, the credential still the
\* hash of the registration password
C19_Witness ==
    \E r \in Reqs, u \in db.User :
        /\ Op(r) = "updateCurrentUser" /\ Over(r) /\ Status(r) = 200
        /\ CallerId(r) = Oid(u._id)
        /\ u.username = Str(Ann)
        /\ IsHashOf(u.password, Password1)

\* a body that carries a valid new password and nothing else
NewPasswordOnly(body) ==
    /\ body.password.t = "string" /\ Len(body.password.v) \in 8..30
    /\ body.username = Undefined /\ body.email = Undefined /\ body.birthDate = Undefined

\* C20: PATCH /users/me by an existing user with {password: P}, P a valid new
\* password, answers 200, and from then on loginUser with the user's email succeeds
\* with P and answers 401 for the previous password: the stored credential is the
\* one that P matches.
C20_PasswordChange ==
    [][\A r \in Reqs :
        /\ updateCurrentUser(r)
        /\ NewPasswordOnly(req[r].rq.body)
        /\ \E u \in db.User : CallerId(r) = Oid(u._id)
        => /\ EndsWith(r, 200)
           /\ \E u \in db'.User :
                /\ CallerId(r) = Oid(u._id)
                /\ BcryptCompare(req[r].rq.body.password, u.password) = "match"]_vars

----------------------------------------------------------------------------
(* C21 .. C30: filters, failures, races, tokens, frames *)

\* C21: GET /playlists?title=X by user U returns exactly U's playlists whose title
\* contains X, whatever the case of the letters; a playlist of U whose title does
\* not contain X is not in the result.
C21_PlaylistTitleFilter ==
    [][\A r \in Reqs :
        /\ fetchExistingPlaylists(r)
        /\ Truthy(req[r].rq.query.title)
        /\ EndsWith(r, 200)
        => req'[r].res[1].json.docs =
               {d \in db.Playlist :
                   /\ Oid(d.userId) = CallerId(r)
                   /\ RegexTest(req[r].rq.query.title.v, d.title.v)}]_vars

\* the handlers of users, tracks and playlists
StoreOps == CreateOps \cup MeOps \cup FetchOps \cup UpdateOps \cup DeleteOps \cup {"loginUser"}

\* C22: when a store operation fails at any step of a user, track or playlist
\* handler, the handler answers 500 {message: "Internal server error"} and the store
\* holds no effect of that request: the failing step leaves the store as it was,
\* and a step of a request that changes the store is its last one and ends it
\* with 200 or 201.
C22_StoreFailure ==
    [][\A r \in Reqs :
        Op(r) \in StoreOps =>
            /\ storeError(r) =>
                /\ EndsWith(r, 500)
                /\ req'[r].res[1].json = [message |-> "Internal server error"]
                /\ db' = db
            /\ req'[r] # req[r] /\ db' # db =>
                /\ EndsWith(r, 200) \/ EndsWith(r, 201)
                /\ req'[r].pc = "done"]_vars

\* an owner's update that passed the ownership check and then met a store failure:
\* the track is as it was created
C22_Witness ==
    \E r \in Reqs :
        /\ Op(r) = "updateExistingTrack" /\ Over(r) /\ Status(r) = 500
        /\ req[r].rq.id = Oid(1) /\ CallerId(r) = Oid(1)
        /\ \E d \in db.Track : d._id = 1 /\ d.userId = 1 /\ d.title = Str(<<"B", "c">>)

\* the caller's record before and after the step equals itself on the paths that
\* the body does not name, `kept` being the paths beside them that must stay
Untouched(r, kept) ==
    \E u \in db.User, v \in db'.User :
        /\ CallerId(r) = Oid(u._id) /\ v._id = u._id
        /\ db' = [db EXCEPT !.User = (@ \ {u}) \cup {v}]
        /\ v.password = u.password
        /\ \A p \in kept : v[p] = u[p]
        /\ \A p \in {"username", "email", "birthDate"} :
            req[r].rq.body[p] = Undefined => v[p] = u[p]

\* the fields of the body pass the rules of the schema and are held by no other user
Acceptable(r) ==
    LET body == req[r].rq.body IN
    /\ body.username # Undefined =>
        /\ body.username.t = "string" /\ ~UsernameBroken(body.username)
        /\ \A u \in db.User :
            u.username = UsernameKey(body.username) => CallerId(r) = Oid(u._id)
    /\ body.email # Undefined =>
        /\ body.email.t = "string" /\ ~EmailBroken(body.email)
        /\ \A u \in db.User : u.email = EmailKey(body.email) => CallerId(r) = Oid(u._id)
    /\ body.birthDate # Undefined =>
        ~DateCastFails(body.birthDate) /\ ~BirthDateBroken(body.birthDate)

\* (as first stated) PATCH /users/me with a body without a password answers 200 and
\* changes only the fields that the body names
C23_Original ==
    [][\A r \in Reqs :
        /\ updateCurrentUser(r)
        /\ req[r].rq.body.password = Undefined
        => /\ EndsWith(r, 200)
           /\ Untouched(r, {"createdAt", "updatedAt"})]_vars

\* C23: PATCH /users/me by an existing user with a body that has no password field
\* and whose fields pass the schema rules and are held by no other user answers 200,
\* unless a store operation fails, changes only the fields named in the body and
\* updatedAt, and leaves the stored credential as it was, so that loginUser with the
\* previous password still succeeds.
C23_ProfileUpdate ==
    [][\A r \in Reqs :
        /\ updateCurrentUser(r)
        /\ req[r].rq.body.password = Undefined
        /\ \E u \in db.User : CallerId(r) = Oid(u._id)
        /\ Acceptable(r)
        => /\ EndsWith(r, 200)
           /\ Untouched(r, {"createdAt"})]_vars

\* a user renamed some time after registration, the credential that of registration
C23_Witness ==
    \E r \in Reqs, u \in db.User :
        /\ Op(r) = "updateCurrentUser" /\ Over(r) /\ Status(r) = 200
        /\ req[r].rq.body.username = Str(Ann)
        /\ CallerId(r) = Oid(u._id)
        /\ u.username = Str(Ann) /\ u.email = Str(EmailA)
        /\ u.updatedAt > u.createdAt
        /\ IsHashOf(u.password, Password1)

MissingMessage(op) ==
    IF op \in {"updateExistingTrack", "deleteExistingTrack"}
    THEN "Track not found" ELSE "Playlist not found"

\* C24: the ownership check looks for the resource before it compares owners: PATCH
\* or DELETE on a track or playlist id that is not in the store ends with 404 "Track
\* not found" / "Playlist not found" for every authenticated caller, never 403
\* (unless the lookup itself rejects: 500), and a 403 is only ever given for a
\* resource that the check found in the store.
C24_ExistenceBeforeOwnership ==
    [][\A r \in Reqs :
          (Op(r) \in UpdateOps \cup DeleteOps /\ req[r].pc = "start" /\ Steps(r))
          => /\ req[r].rq.id.t = "oid" /\ ~NoCaller(r) /\ Target(r) = {} =>
                 \/ StoreRejects(r)
                 \/ Ends(r, 404) /\ req'[r].res[1].json = [message |-> MissingMessage(Op(r))]
             /\ Ends(r, 403) => req[r].rq.id.t = "oid" /\ Target(r) # {}]_vars

\* a PATCH or DELETE of an id that is not stored was answered 404, while another
\* user's resource is stored
C24_Witness ==
    \E r \in Reqs :
        /\ Op(r) \in UpdateOps \cup DeleteOps /\ Over(r) /\ Status(r) = 404
        /\ Target(r) = {}
        /\ \E d \in db.Track \cup db.Playlist : Oid(d.userId) # CallerId(r)

\* C25: the check and the mutation are two steps: an owner's PATCH that passed the
\* existence and ownership check, and whose resource a concurrent DELETE removed
\* before its update-by-id step, is neither rejected nor detected as stale; with a
\* body that the schema accepts it ends with 200 (and no document) although the
\* resource is no longer stored, and the store stays as it is.
C25_StaleUpdateAnswers200 ==
    [][\A r \in Reqs :
          (/\ Op(r) \in UpdateOps /\ req[r].pc = "findByIdAndUpdate" /\ Steps(r)
           /\ Target(r) = {} /\ BodyAccepted(r))
          => /\ db' = db
             /\ \/ StoreRejects(r)
                \/ Ends(r, 200) /\ req'[r].res[1].json = [doc |-> Undefined]]_vars

\* the interleaving: a DELETE and a PATCH of the same resource both answered 200,
\* the PATCH with no document, and the resource is not stored
C25_Witness ==
    \E r, q \in Reqs :
        /\ Op(r) \in UpdateOps /\ Over(r) /\ Status(r) = 200
        /\ Json(r) = [doc |-> Undefined]
        /\ Op(q) \in DeleteOps /\ Over(q) /\ Status(q) = 200
        /\ CollectionOf(Op(q)) = CollectionOf(Op(r)) /\ req[q].rq.id = req[r].rq.id
        /\ CallerId(q) = CallerId(r)
        /\ Target(r) = {}

\* the tokens that a login has issued and whose response is still in a slot
IssuedTokens ==
    {req[q].res[1].json.accessToken :
        q \in {p \in Reqs : Op(p) = "loginUser" /\ Over(p) /\ Status(p) = 200}}

\* C26: expiry alone ends a token's validity: a token that loginUser issued passes
\* the gate at every time before its expiry and at no time from its expiry on,
\* whether or not its user is still stored; after DELETE /users/me the same unexpired
\* token still passes, and GET /users/me then answers 404 "User not found", not 401
\* (unless the lookup rejects: 500).
C26_ExpiryOnly ==
    [][\A r \in Reqs :
          /\ \A j \in IssuedTokens :
                (/\ req[r].pc = "idle" /\ Steps(r)
                 /\ req'[r].rq.op \in MeOps
                 /\ req'[r].rq.authorization = Str(<<Lit("Bearer"), Sp, Tok(j)>>))
                => IF now < j.exp.v
                   THEN /\ req'[r].pc = "start" /\ req'[r].nexts = 1
                        /\ req'[r].res = <<>>
                        /\ req'[r].user = j.payload.user
                   ELSE /\ req'[r].pc = "done" /\ req'[r].nexts = 0
                        /\ Len(req'[r].res) = 1 /\ req'[r].res[1].status = 401
          /\ (/\ Op(r) = "fetchCurrentUser" /\ req[r].pc = "start" /\ Steps(r)
              /\ \A u \in db.User : CallerId(r) # Oid(u._id))
             => \/ StoreRejects(r)
                \/ Ends(r, 404) /\ req'[r].res[1].json = [message |-> "User not found"]]_vars

\* the user is deleted and GET /users/me with the token of the login, not yet
\* expired when it was sent, was answered 404
C26_Witness ==
    \E r \in Reqs :
        /\ Op(r) = "fetchCurrentUser" /\ Over(r) /\ Status(r) = 404
        /\ \E j \in IssuedTokens :
            /\ req[r].rq.authorization = Str(<<Lit("Bearer"), Sp, Tok(j)>>)
            /\ now < j.exp.v
        /\ db.User = {}

\* C27: in every interleaving, whenever a PATCH or DELETE changes or removes a
\* stored track or playlist, the caller of that request is the owner of the
\* resource as stored at the moment of the mutation step, not merely at the moment
\* of the earlier ownership check.
C27_MutatorIsOwnerAtMutation ==
    [][\A r \in Reqs :
          (Op(r) \in UpdateOps \cup DeleteOps /\ Steps(r) /\ db' # db)
          => \A d \in Target(r) : Oid(d.userId) = CallerId(r)]_vars

\* two requests of one caller for the same resource
SameTarget(r, q) ==
    /\ r # q
    /\ CollectionOf(Op(r)) = CollectionOf(Op(q))
    /\ req[r].rq.id = req[q].rq.id
    /\ CallerId(r) = CallerId(q)

DeletedMessages == {"Track deleted successfully", "Playlist deleted successfully"}

\* (as first stated) of the owner's concurrent DELETEs of one resource at most one
\* is answered 200
C28_Original ==
    \A r, q \in Reqs :
        (/\ Op(r) \in DeleteOps /\ Op(q) \in DeleteOps /\ SameTarget(r, q)
         /\ Over(r) /\ Over(q))
        => ~(Status(r) = 200 /\ Status(q) = 200)

\* C28: across the interleavings of concurrent DELETE requests that the owner of a
\* track or playlist issues, at most one request removes it; a DELETE whose
\* ownership check runs when the resource is gone answers 404, and a DELETE that
\* passed its check before the removal still answers 200 "deleted successfully"
\* (500 when the store call rejects), so that more than one can answer 200.
C28_ConcurrentDeletes ==
    [][\A r \in Reqs :
          (Op(r) \in DeleteOps /\ Steps(r) /\ req[r].rq.id.t = "oid")
          => /\ req[r].pc = "start" /\ Target(r) = {} =>
                 /\ db' = db
                 /\ StoreRejects(r) \/ Ends(r, 404)
             /\ req[r].pc = "findByIdAndDelete" =>
                 \/ StoreRejects(r) /\ db' = db
                 \/ /\ Ends(r, 200) /\ req'[r].res[1].json.message \in DeletedMessages
                    /\ db' = [db EXCEPT ![CollectionOf(Op(r))] = @ \ Target(r)]
             /\ db' # db => Target(r) # {}]_vars

\* two DELETEs of the same resource by the same caller, both answered 200
C28_Witness ==
    \E r, q \in Reqs :
        /\ Op(r) \in DeleteOps /\ Op(q) \in DeleteOps /\ SameTarget(r, q)
        /\ Over(r) /\ Status(r) = 200
        /\ Over(q) /\ Status(q) = 200
        /\ Target(r) = {}

\* the ids of the collection that were given out and are no longer stored
Removed(coll) == {i \in 1..oidSeq[coll] : \A d \in db[coll] : d._id # i}

\* the ids under which the collection stores a document after the step
StoredNext(coll) == {d._id : d \in db'[coll]}

\* C29: once a track or playlist has been removed by DELETE, no PATCH, whether it
\* runs later or was past its ownership check when the DELETE happened, and no other
\* request brings a record with that id back: a deleted id stays absent forever.
C29_DeletedStaysAbsent ==
    [][\A coll \in {"Track", "Playlist"} : Removed(coll) \cap StoredNext(coll) = {}]_vars

\* a PATCH that was past its check when its resource was removed has run its update
\* step, and the id is not stored
C29_Witness ==
    \E r \in Reqs :
        /\ Op(r) \in UpdateOps /\ Over(r) /\ Status(r) = 200
        /\ Json(r).doc = Undefined
        /\ req[r].rq.id.t = "oid"
        /\ req[r].rq.id.v \in Removed(CollectionOf(Op(r)))

\* C30: DELETE /users/me removes only the caller's user record: every track and
\* playlist, those of the deleted user included, stays in the store as it was (no
\* cascade); and DELETE /tracks/:id leaves every playlist, and so its trackIds, as
\* it was.
C30_NoCascade ==
    [][\A r \in Reqs :
          /\ (Op(r) = "deleteCurrentUser" /\ Steps(r))
             => /\ db'.Track = db.Track /\ db'.Playlist = db.Playlist
                /\ db'.User \subseteq db.User
                /\ \A u \in db.User \ db'.User : Oid(u._id) = CallerId(r)
          /\ (Op(r) = "deleteExistingTrack" /\ Steps(r))
             => db'.Playlist = db.Playlist /\ db'.User = db.User]_vars

\* the user is gone and so is the track, and the user's playlist is still stored
\* and still names the track
C30_Witness ==
    /\ oidSeq.User = 1 /\ db.User = {}
    /\ 1 \in Removed("Track")
    /\ \E p \in db.Playlist : p.userId = 1 /\ p.trackIds = <<1>>

====
